---- MODULE Spec2Model ----
(***************************************************************************)
(* A model of the agent framework of victhorio/opa: the orchestrator       *)
(* Agent.Run, the tool registry, the two streaming adapters' Consume       *)
(* goroutines and the session store.                                       *)
(*                                                                         *)
(* Strings of the program (texts, argument JSON, signatures) are finite    *)
(* sequences of tokens; concatenation is \o.                                *)
(***************************************************************************)
EXTENDS Integers, Sequences, FiniteSets, TLC

\* ------------------------------------------------------------------------
\* Program constants
\* ------------------------------------------------------------------------

agentRoundsMax == 4

\* events := make(chan core.Event, 1)
EventsCap == 1

\* toolResults := make(chan core.ToolResult, 4)
ToolResultsCap == 4

\* ------------------------------------------------------------------------
\* Bounds of the model
\* ------------------------------------------------------------------------

\* most tool calls a provider requests in one round
MaxCalls == 2

\* most Error events one stream is followed for
MaxErrEvents == 2

\* ------------------------------------------------------------------------
\* core.Msg, core.Response, core.Event
\* ------------------------------------------------------------------------

\* the empty call id
NoId == <<>>

NewMsgReasoning(encrypted, text) ==
    [type |-> "reasoning", role |-> "", id |-> NoId, name |-> "",
     text |-> text, enc |-> encrypted]

NewMsgContent(role, text) ==
    [type |-> "content", role |-> role, id |-> NoId, name |-> "",
     text |-> text, enc |-> <<>>]

NewMsgToolCall(id, name, arguments) ==
    [type |-> "tool_call", role |-> "", id |-> id, name |-> name,
     text |-> arguments, enc |-> <<>>]

NewMsgToolResult(id, result) ==
    [type |-> "tool_result", role |-> "", id |-> id, name |-> "",
     text |-> result, enc |-> <<>>]

\* the zero core.Response: no messages, zero usage
ZeroResponse == [msgs |-> <<>>, usage |-> 0]

NoCall == [id |-> NoId, name |-> "", args |-> <<>>]

NewEvDelta(delta) ==
    [type |-> "EvDelta", delta |-> delta, resp |-> ZeroResponse, call |-> NoCall]

NewEvDeltaReason(delta) ==
    [type |-> "EvDeltaReason", delta |-> delta, resp |-> ZeroResponse, call |-> NoCall]

NewEvResp(response) ==
    [type |-> "EvResp", delta |-> <<>>, resp |-> response, call |-> NoCall]

NewEvToolCall(id, name, args) ==
    [type |-> "EvToolCall", delta |-> <<>>, resp |-> ZeroResponse,
     call |-> [id |-> id, name |-> name, args |-> args]]

NewEvError ==
    [type |-> "EvError", delta |-> <<>>, resp |-> ZeroResponse, call |-> NoCall]

NoEvent ==
    [type |-> "none", delta |-> <<>>, resp |-> ZeroResponse, call |-> NoCall]

\* ------------------------------------------------------------------------
\* The SSE body: lines, and the JSON payload of the data lines
\* ------------------------------------------------------------------------

\* The JSON of one server-sent event, as the adapters' eventRaw / sse structs
\* decode it: t the "type", sub the item / content block / delta type, out the
\* output items of response.completed, u the reported usage.
Payload(t, sub, id, name, x, out, u) ==
    [t |-> t, sub |-> sub, id |-> id, name |-> name, x |-> x, out |-> out, u |-> u]

NoPayload == Payload("", "", NoId, "", <<>>, <<>>, 0)

\* bytes that are no JSON document
Garbage == Payload("garbage", "", NoId, "", <<>>, <<>>, 0)

\* a line "data:<json>"; part tells whether the line holds the whole JSON
\* document or its first or second half
DataLine(p, part) == [k |-> "data", p |-> p, part |-> part]

Data(p) == DataLine(p, "whole")

\* the empty line that ends an event
Blank == [k |-> "blank", p |-> NoPayload, part |-> ""]

\* a field other than data ("event: ...", a comment)
Field == [k |-> "field", p |-> NoPayload, part |-> ""]

\* a read that fails with an error other than io.EOF
ReadErr == [k |-> "err", p |-> NoPayload, part |-> ""]

Frame(p) == <<Data(p), Blank>>

\* json.Unmarshal of the accumulated data: the chunks decode when they are one
\* whole document, or the two halves of one document in order
JsonValid(buf) ==
    \/ Len(buf) = 1 /\ buf[1].part = "whole" /\ buf[1].p.t # "garbage"
    \/ /\ Len(buf) = 2
       /\ buf[1].part = "head" /\ buf[2].part = "tail"
       /\ buf[1].p = buf[2].p /\ buf[1].p.t # "garbage"

JsonDecode(buf) == buf[1].p

\* ------------------------------------------------------------------------
\* What the providers send
\* ------------------------------------------------------------------------

\* call ids are pairs <<round, index>>: a provider never repeats a call id
CallId(r, i) == <<r, i>>

\* The tool a provider names in its i-th call of a round of k calls. A single
\* call names "read"; of several calls the first names "bogus", the second
\* "broken" and the others "read".
CallName(k, i) ==
    IF k = 1 THEN "read"
    ELSE IF i = 1 THEN "bogus" ELSE IF i = 2 THEN "broken" ELSE "read"

\* what one round of a provider holds: a reasoning block, an assistant text,
\* k tool calls
Shape(r, c, k) == [r |-> r, c |-> c, k |-> k]

RECURSIVE ConcatTo(_, _)
\* f[1] \o f[2] \o ... \o f[n]
ConcatTo(f, n) == IF n = 0 THEN <<>> ELSE ConcatTo(f, n - 1) \o f[n]

\* wire names of adapter A (responses-style)
etRespCreated == "response.created"
etRespCompleted == "response.completed"
etItemDone == "response.output_item.done"
etTextDelta == "response.output_text.delta"
etReasoningDeltaDone == "response.reasoning_summary_text.done"
etError == "error"

\* an output item of response.completed; n is the length of its content list
Item(type, id, name, x, n) == [type |-> type, id |-> id, name |-> name, x |-> x, n |-> n]

OpenAIOutput(rd, sh) ==
    (IF sh.r THEN <<Item("reasoning", <<>>, "", <<"enc">>, 0)>> ELSE <<>>)
    \o (IF sh.c THEN <<Item("message", <<>>, "", <<"a", "b">>, 1)>> ELSE <<>>)
    \o [i \in 1..sh.k |-> Item("function_call", CallId(rd, i), CallName(sh.k, i), <<"{", "}">>, 0)]

\* the SSE body adapter A reads for a round of shape sh
OpenAIBody(rd, sh) ==
    Frame(Payload(etRespCreated, "", <<>>, "", <<>>, <<>>, 0))
    \o (IF sh.r
        THEN Frame(Payload(etReasoningDeltaDone, "", <<>>, "", <<"think">>, <<>>, 0))
             \o Frame(Payload(etItemDone, "reasoning", <<>>, "", <<>>, <<>>, 0))
        ELSE <<>>)
    \o (IF sh.c
        THEN Frame(Payload(etTextDelta, "", <<>>, "", <<"a">>, <<>>, 0))
             \o Frame(Payload(etTextDelta, "", <<>>, "", <<"b">>, <<>>, 0))
        ELSE <<>>)
    \o ConcatTo([i \in 1..sh.k |->
                    Frame(Payload(etItemDone, "function_call", CallId(rd, i),
                                  CallName(sh.k, i), <<"{", "}">>, <<>>, 0))], sh.k)
    \o Frame(Payload(etRespCompleted, "", <<>>, "", <<>>, OpenAIOutput(rd, sh), 1))

\* wire names of adapter B (messages-style)
stPing == "ping"
stMsgStart == "message_start"
stMsgDelta == "message_delta"
stMsgStop == "message_stop"
stContBlockStart == "content_block_start"
stContBlockDelta == "content_block_delta"
stContBlockStop == "content_block_stop"

AnthropicBlock(type, id, name, deltaType, frags) ==
    Frame(Payload(stContBlockStart, type, id, name, <<>>, <<>>, 0))
    \o ConcatTo([j \in 1..Len(frags) |->
                    Frame(Payload(stContBlockDelta, deltaType[j], <<>>, "", <<frags[j]>>, <<>>, 0))],
                Len(frags))
    \o Frame(Payload(stContBlockStop, "", <<>>, "", <<>>, <<>>, 0))

\* the SSE body adapter B reads for a round of shape sh
AnthropicBody(rd, sh) ==
    Frame(Payload(stMsgStart, "", <<>>, "", <<>>, <<>>, 0))
    \o (IF sh.r
        THEN AnthropicBlock("thinking", <<>>, "", <<"thinking_delta", "signature_delta">>,
                            <<"think", "sig">>)
        ELSE Frame(Payload(stPing, "", <<>>, "", <<>>, <<>>, 0)))
    \o (IF sh.c
        THEN AnthropicBlock("text", <<>>, "", <<"text_delta", "text_delta">>, <<"a", "b">>)
        ELSE <<>>)
    \o ConcatTo([i \in 1..sh.k |->
                    AnthropicBlock("tool_use", CallId(rd, i), CallName(sh.k, i),
                                   <<"input_json_delta", "input_json_delta">>, <<"{", "}">>)],
                sh.k)
    \o Frame(Payload(stMsgDelta, "", <<>>, "", <<>>, <<>>, 1))
    \o Frame(Payload(stMsgStop, "", <<>>, "", <<>>, <<>>, 0))

ProviderBody(prov, rd, sh) ==
    IF prov = "openai" THEN OpenAIBody(rd, sh) ELSE AnthropicBody(rd, sh)

\* The rounds a provider may answer with. It calls tools only when the request
\* carried tools and did not forbid them; it asks for several tools at once in
\* its first answer and for one tool at a time afterwards.
Shapes(canCall, rd) ==
    {Shape(FALSE, TRUE, 0), Shape(TRUE, TRUE, 0), Shape(TRUE, FALSE, 0),
     Shape(FALSE, FALSE, 0)}
    \cup (IF canCall THEN {Shape(TRUE, FALSE, 1)} ELSE {})
    \cup (IF canCall /\ rd = 0 THEN {Shape(FALSE, TRUE, MaxCalls)} ELSE {})

Prefix(b, n) == SubSeq(b, 1, n)

Suffix(b, n) == SubSeq(b, n + 1, Len(b))

\* A content block of a type adapter B has no case for, with the deltas it
\* carries: a redacted_thinking block has none, a server_tool_use block has
\* its input in input_json_delta fragments.
UnknownBlocks ==
    {AnthropicBlock("redacted_thinking", NoId, "", <<>>, <<>>),
     AnthropicBlock("server_tool_use", NoId, "web_search", <<"input_json_delta">>, <<"q">>)}

\* the body of adapter B for shape sh with such a block as its first or as
\* its last content block
AnthropicBodyUnknown(rd, sh) ==
    LET b == AnthropicBody(rd, sh) IN
    {Prefix(b, n) \o u \o Suffix(b, n) : n \in {2, Len(b) - 4}, u \in UnknownBlocks}

\* A body that arrives damaged: cut short after n lines, a read error or a
\* line of garbage before line n + 1, or the data of line n + 1 sent in two
\* halves.
Damaged(b, n) ==
    {Prefix(b, n),
     Prefix(b, n) \o <<ReadErr>> \o Suffix(b, n),
     Prefix(b, n) \o Frame(Garbage) \o Suffix(b, n)}
    \cup (IF n < Len(b) /\ b[n + 1].k = "data"
          THEN {Prefix(b, n) \o <<DataLine(b[n + 1].p, "head"), DataLine(b[n + 1].p, "tail")>>
                    \o Suffix(b, n + 1)}
          ELSE {})

\* the model's `error` event of adapter A, in place of the rest of the body
WithErrorEvent(b, n) ==
    Prefix(b, n) \o Frame(Payload(etError, "", <<>>, "", <<>>, <<>>, 0))

\* The bodies Run's stream may read in a round of shape sh: the provider's
\* body as sent, and the body cut short, hit by a read error, with a line of
\* garbage, with a data line in halves, or ending in the model's error event.
RoundBodies(prov, rd, sh) ==
    LET b == ProviderBody(prov, rd, sh) IN
    {b, Prefix(b, Len(b) - 1)} \cup Damaged(b, Len(b) - 2)
        \cup (IF prov = "openai" THEN {WithErrorEvent(b, Len(b) - 2)} ELSE {})

\* ------------------------------------------------------------------------
\* State
\* ------------------------------------------------------------------------

VARIABLES
    provider,       \* a.model.Provider()
    registry,       \* a.tools: the registered tool names
    storeMsgs,      \* a.Store: the session's messages
    storeUsage,     \* a.Store: the session's usage
    pc,             \* where Agent.Run is
    msgs,           \* Run's working slice
    msgsStoreIdx,   \* Run's persist boundary
    round,          \* Run's loop variable
    usage,          \* Run's accumulated usage
    resp,           \* Run's resp of the round
    toolCallCount,  \* Run's toolCallCount of the round
    collected,      \* how many turns of the collecting loop have run
    toolResults,    \* the round's toolResults channel
    workers,        \* the round's tool goroutines
    runErr,         \* what Run returned: "" while running, "nil", or the error
    ctxDone,        \* the caller's ctx is cancelled
    ctxChildDone,   \* ctxChild, the context of the stream and of the tools, is cancelled
    disableTools,   \* cfg.DisableTools of the round's OpenStream
    body,           \* the lines of the HTTP body not read yet
    cpc,            \* where Consume is
    buf,            \* Consume's buf: the data lines of the event being read
    pend,           \* the event Consume is sending, and where it goes afterwards
    cresp,          \* adapter B's resp under construction
    events,         \* the events channel
    eventsClosed,   \* close(out) has run
    bodyClosed,     \* s.stream.Close() has run
    crashed,        \* the process died (a panic or log.Fatalf)
    sent,           \* history: the events Consume wrote to the channel of this stream
    opened,         \* history: the streams Run opened
    extended,       \* history: the calls of Store.Extend
    storeAtStart,   \* history: the session's messages and usage when Run started
    roundBase,      \* history: the length of msgs when the round's stream was opened
    storeKind,      \* which Store is under test: "EphemeralStore" or "SQLiteStore"
    db,             \* SQLiteStore.db: the rows of the tables messages and usage
    ephemeral,      \* the EphemeralStore (for the SQLiteStore: s.ephemeral, its cache)
    tx,             \* SQLiteStore.Extend's transaction and how far Extend has got
    committed,      \* history: per session, the messages and usages of the calls of Extend that returned nil
    ret,            \* history: the last call on the store and what it returned
    handle,         \* history: what has been done with this store handle
    request,        \* adapter B's OpenStream: its arguments and the request body it builds
    agent,          \* NewAgent: its tool list, the registry and the specs it builds
    cachedMsg,      \* a core.Msg: its semantic fields and its CachedTransform
    costed,         \* adapter A's costFromUsage: its arguments and what it returns
    tui,            \* the TUIModel
    callers         \* the goroutines that call Extend on one SQLiteStore, and s.mu

runVars ==
    <<pc, msgs, msgsStoreIdx, round, usage, resp, toolCallCount, collected, toolResults, workers,
      runErr, disableTools, opened, extended, storeAtStart, roundBase>>

storeVars == <<storeMsgs, storeUsage>>

streamVars == <<body, cpc, buf, pend, cresp, events, eventsClosed, bodyClosed, sent>>

\* the variables of the specifications of single functions and types
pureVars == <<request, agent, cachedMsg, costed, tui, callers>>

sessionVars == <<storeKind, db, ephemeral, tx, committed, ret, handle, pureVars>>

\* the value of a variable in the specifications that do not use it
Unused == "unused"

\* every variable of pureVars but those named in used is out of use
OthersUnused(used) ==
    /\ IF "request" \in used THEN TRUE ELSE request = Unused
    /\ IF "agent" \in used THEN TRUE ELSE agent = Unused
    /\ IF "cachedMsg" \in used THEN TRUE ELSE cachedMsg = Unused
    /\ IF "costed" \in used THEN TRUE ELSE costed = Unused
    /\ IF "tui" \in used THEN TRUE ELSE tui = Unused
    /\ IF "callers" \in used THEN TRUE ELSE callers = Unused

vars ==
    <<provider, registry, storeVars, runVars, ctxDone, ctxChildDone, streamVars, crashed,
      sessionVars>>

\* ------------------------------------------------------------------------
\* sendEvent and the return of Consume (both adapters)
\* ------------------------------------------------------------------------

NumErrors(log) == Cardinality({i \in 1..Len(log) : log[i].type = "EvError"})

\* (mutant) Consume returns without closing the channel
ConsumeReturnsOutOpen ==
    /\ cpc' = "returned"
    /\ eventsClosed' = eventsClosed
    /\ bodyClosed' = TRUE
    /\ body' = <<>>
    /\ buf' = <<>>
    /\ cresp' = [msgs |-> <<>>, usage |-> 0]

\* Consume returns: the deferred close(out) and s.stream.Close() run; nothing
\* is left of the body and of Consume's locals
ConsumeReturns ==
    /\ cpc' = "returned"
    /\ eventsClosed' = TRUE
    /\ bodyClosed' = TRUE
    /\ body' = <<>>
    /\ buf' = <<>>
    /\ cresp' = [msgs |-> <<>>, usage |-> 0]

\* Consume starts sendEvent(ctx, out, ev); ok is where Consume goes when the
\* event was sent ("read": the next line, "return"), app the text appended to
\* the last message once it was sent (adapter B's text_delta)
StartSend(ev, ok, app) ==
    /\ cpc' = "send"
    /\ pend' = [ev |-> ev, ok |-> ok, app |-> app]
    /\ UNCHANGED <<eventsClosed, bodyClosed>>

NoPend == [ev |-> NoEvent, ok |-> "", app |-> <<>>]

\* what a dispatch asks of Consume: an event to send (or none), where to go
\* after it, a crash, and adapter B's resp afterwards
Outcome(ev, ok, app, crash, r) == [ev |-> ev, ok |-> ok, app |-> app, crash |-> crash, r |-> r]

\* Consume gets to x, a way through its loop: the body and buf left, and the
\* outcome of the last dispatch; atEOF is adapter A's last flush, after which
\* Consume returns whatever the dispatch said
Act(x) ==
    /\ crashed' = x.o.crash
    /\ IF x.o.crash
       THEN UNCHANGED <<cpc, pend, eventsClosed, bodyClosed, body, buf, cresp>>
       ELSE IF x.o.ev.type # "none"
       THEN /\ StartSend(x.o.ev, IF x.atEOF THEN "return" ELSE x.o.ok, x.o.app)
            /\ body' = x.body /\ buf' = x.buf /\ cresp' = x.o.r
       ELSE ConsumeReturns /\ UNCHANGED pend

\* content.Text = delta, not +=
AppendTextOverwrites(r, app) ==
    [r EXCEPT !.msgs[Len(r.msgs)].text = app]

\* the last message of adapter B's resp is a Content message: the text of the
\* delta just sent is appended to it; otherwise log.Fatalf
AppendText(r, app) ==
    [r EXCEPT !.msgs[Len(r.msgs)].text = @ \o app]

\* sendEvent: the case `out <- ev` of the select
SendEventSent ==
    /\ cpc = "send" /\ ~crashed
    /\ ~eventsClosed
    /\ Len(events) < EventsCap
    /\ events' = Append(events, pend.ev)
    /\ sent' = Append(sent, pend.ev)
    /\ pend' = NoPend
    /\ IF pend.ok = "return"
       THEN ConsumeReturns /\ UNCHANGED crashed
       ELSE /\ cpc' = "read"
            /\ UNCHANGED <<eventsClosed, bodyClosed, body, buf>>
            /\ IF pend.app = <<>>
               THEN UNCHANGED <<cresp, crashed>>
               ELSE IF cresp.msgs[Len(cresp.msgs)].type = "content"
               THEN cresp' = AppendText(cresp, pend.app) /\ UNCHANGED crashed
               ELSE crashed' = TRUE /\ UNCHANGED cresp
    /\ UNCHANGED <<sessionVars, provider, registry, storeVars, runVars, ctxDone, ctxChildDone>>

\* sendEvent: the case `<-ctx.Done()` of the select; every caller then returns
\* from Consume
SendEventCtxDone ==
    /\ cpc = "send" /\ ~crashed
    /\ ctxChildDone
    /\ pend' = NoPend
    /\ ConsumeReturns
    /\ UNCHANGED <<sessionVars, provider, registry, storeVars, runVars, ctxDone, ctxChildDone,
                   events, sent, crashed>>

\* ------------------------------------------------------------------------
\* Adapter A (openai): Consume, dispatchRawEvent, toComMessages
\* ------------------------------------------------------------------------

\* toComMessages panics on a message item whose content list has not exactly
\* one entry and on an item of unknown type
toComMessagesPanics(output) ==
    \E i \in 1..Len(output) :
        \/ output[i].type = "message" /\ output[i].n # 1
        \/ output[i].type \notin {"reasoning", "message", "function_call"}

toComMessages(output) ==
    [i \in 1..Len(output) |->
        IF output[i].type = "reasoning" THEN NewMsgReasoning(output[i].x, <<>>)
        ELSE IF output[i].type = "message" THEN NewMsgContent("assistant", output[i].x)
        ELSE NewMsgToolCall(output[i].id, output[i].name, output[i].x)]

\* (mutant) adapter A keeps listening after response.completed
AfterCompletedReadsOn == "read"

\* after response.completed adapter A stops listening: dispatchRawEvent
\* returns true whether or not the event was sent
AfterCompleted == "return"

OpenAIDispatch(dataBytes) ==
    IF ~JsonValid(dataBytes)
    THEN Outcome(NewEvError, "return", <<>>, FALSE, cresp)
    ELSE LET event == JsonDecode(dataBytes) IN
         CASE event.t = etRespCompleted ->
                IF toComMessagesPanics(event.out)
                THEN Outcome(NoEvent, "return", <<>>, TRUE, cresp)
                ELSE Outcome(NewEvResp([msgs |-> toComMessages(event.out), usage |-> event.u]),
                             AfterCompleted, <<>>, FALSE, cresp)
           [] event.t = etItemDone /\ event.sub = "function_call" ->
                Outcome(NewEvToolCall(event.id, event.name, event.x), "read", <<>>, FALSE, cresp)
           [] event.t = etTextDelta ->
                Outcome(NewEvDelta(event.x), "read", <<>>, FALSE, cresp)
           [] event.t = etReasoningDeltaDone ->
                Outcome(NewEvDeltaReason(event.x), "read", <<>>, FALSE, cresp)
           [] event.t = etError ->
                Outcome(NewEvError, "return", <<>>, FALSE, cresp)
           [] OTHER ->
                Outcome(NoEvent, "read", <<>>, FALSE, cresp)

\* a read of the body that fails with an error other than io.EOF (the next
\* line is a read error, or the request's context is cancelled) makes Consume
\* send an Error event and read on
FailedRead(b, bf, r) ==
    [body |-> IF b # <<>> /\ Head(b).k = "err" THEN Tail(b) ELSE b,
     buf |-> bf, atEOF |-> FALSE,
     o |-> Outcome(NewEvError, "read", <<>>, FALSE, r)]

\* whether the stream is followed through one more Error event: through
\* MaxErrEvents of them while somebody receives; once Run has returned nobody
\* does, and the events channel bounds them
MayFail == NumErrors(sent) < MaxErrEvents \/ pc = "returned"

\* Once the request's context is cancelled the reads of the body fail. Which
\* read between two sendEvents fails first makes no difference to what Consume
\* sends (a failed read consumes nothing), so it is the first one.
CancelledRead(b, bf, r) ==
    IF ctxChildDone /\ MayFail THEN {FailedRead(b, bf, r)} ELSE {}

\* a dispatch that sent nothing and lets the loop go on
GoesOn(o) == o.ev.type = "none" /\ o.ok = "read" /\ ~o.crash

RECURSIVE OpenAILoop(_, _)
\* Consume's loop in adapter A from body b and buf bf up to its next
\* sendEvent, its return or a crash: the ways it can get there, each with the
\* body and buf left and the dispatch outcome.
OpenAILoop(b, bf) ==
    IF b = <<>>
    THEN \* io.EOF: leave the loop, dispatch what is left in buf, return
         {[body |-> b, buf |-> bf, atEOF |-> TRUE,
           o |-> IF bf = <<>> THEN Outcome(NoEvent, "return", <<>>, FALSE, cresp)
                 ELSE OpenAIDispatch(bf)]}
    ELSE CASE Head(b).k = "err" ->
                IF MayFail THEN {FailedRead(b, bf, cresp)} ELSE {}
           [] Head(b).k = "blank" ->
                \* an empty line: the event is over
                IF bf = <<>> THEN OpenAILoop(Tail(b), bf)
                ELSE IF GoesOn(OpenAIDispatch(bf)) THEN OpenAILoop(Tail(b), <<>>)
                ELSE {[body |-> Tail(b), buf |-> <<>>, atEOF |-> FALSE,
                       o |-> OpenAIDispatch(bf)]}
           [] Head(b).k = "data" ->
                OpenAILoop(Tail(b), Append(bf, Head(b)))
           [] OTHER ->
                \* any other field: ignored
                OpenAILoop(Tail(b), bf)

\* Consume of adapter A runs from one sendEvent to the next
ConsumeOpenAI ==
    /\ provider = "openai" /\ cpc = "read" /\ ~crashed
    /\ \E x \in CancelledRead(body, buf, cresp) \cup OpenAILoop(body, buf) : Act(x)
    /\ UNCHANGED <<sessionVars, provider, registry, storeVars, runVars, ctxDone, ctxChildDone, events, sent>>

\* ------------------------------------------------------------------------
\* Adapter B (anthropic): Consume, dispatchRawEvent
\* ------------------------------------------------------------------------

LastMsg(r) == r.msgs[Len(r.msgs)]

AnthropicDispatch(r, dataBytes) ==
    IF ~JsonValid(dataBytes)
    THEN Outcome(NewEvError, "return", <<>>, FALSE, r)
    ELSE LET ev == JsonDecode(dataBytes)
             crash == Outcome(NoEvent, "return", <<>>, TRUE, r)
             goOn(rr) == Outcome(NoEvent, "read", <<>>, FALSE, rr)
         IN
         CASE ev.t = stMsgDelta ->
                goOn([r EXCEPT !.usage = ev.u])
           [] ev.t = stMsgStop ->
                \* leave the loop and send the final event
                Outcome(NewEvResp(r), "return", <<>>, FALSE, r)
           [] ev.t = stContBlockStart ->
                IF ev.sub = "thinking"
                THEN goOn([r EXCEPT !.msgs = Append(@, NewMsgReasoning(<<>>, <<>>))])
                ELSE IF ev.sub = "text"
                THEN goOn([r EXCEPT !.msgs = Append(@, NewMsgContent("assistant", <<>>))])
                ELSE IF ev.sub = "tool_use"
                THEN goOn([r EXCEPT !.msgs = Append(@, NewMsgToolCall(ev.id, ev.name, <<>>))])
                ELSE goOn(r)
           [] ev.t = stContBlockDelta ->
                IF r.msgs = <<>> THEN crash
                ELSE IF ev.sub = "thinking_delta"
                THEN IF LastMsg(r).type # "reasoning" THEN crash
                     ELSE goOn([r EXCEPT !.msgs[Len(r.msgs)].text = @ \o ev.x])
                ELSE IF ev.sub = "signature_delta"
                THEN IF LastMsg(r).type # "reasoning" THEN crash
                     ELSE goOn([r EXCEPT !.msgs[Len(r.msgs)].enc = @ \o ev.x])
                ELSE IF ev.sub = "text_delta"
                THEN Outcome(NewEvDelta(ev.x), "read", ev.x, FALSE, r)
                ELSE IF ev.sub = "input_json_delta"
                THEN IF LastMsg(r).type # "tool_call" THEN crash
                     ELSE goOn([r EXCEPT !.msgs[Len(r.msgs)].text = @ \o ev.x])
                ELSE goOn(r)
           [] ev.t = stContBlockStop ->
                IF r.msgs = <<>> THEN crash
                ELSE IF LastMsg(r).type = "tool_call"
                THEN Outcome(NewEvToolCall(LastMsg(r).id, LastMsg(r).name, LastMsg(r).text),
                             "read", <<>>, FALSE, r)
                ELSE IF LastMsg(r).type = "reasoning"
                THEN Outcome(NewEvDeltaReason(LastMsg(r).text), "read", <<>>, FALSE, r)
                ELSE goOn(r)
           [] OTHER ->
                \* ping, message_start (the model id), unknown types
                goOn(r)

RECURSIVE AnthropicLoop(_, _, _)
\* Consume's loop in adapter B from body b, buf bf and resp r up to its next
\* sendEvent, its return or a crash.
AnthropicLoop(b, bf, r) ==
    IF b = <<>>
    THEN \* io.EOF is an error like any other: send an Error event, read on
         IF MayFail THEN {FailedRead(b, bf, r)} ELSE {}
    ELSE CASE Head(b).k = "err" ->
                IF MayFail THEN {FailedRead(b, bf, r)} ELSE {}
           [] Head(b).k = "blank" ->
                \* an empty line: the event is over
                IF bf = <<>> THEN AnthropicLoop(Tail(b), bf, r)
                ELSE IF GoesOn(AnthropicDispatch(r, bf))
                THEN AnthropicLoop(Tail(b), <<>>, AnthropicDispatch(r, bf).r)
                ELSE {[body |-> Tail(b), buf |-> <<>>, atEOF |-> FALSE,
                       o |-> AnthropicDispatch(r, bf)]}
           [] Head(b).k = "data" ->
                AnthropicLoop(Tail(b), Append(bf, Head(b)), r)
           [] OTHER ->
                \* any other field: ignored
                AnthropicLoop(Tail(b), bf, r)

\* Consume of adapter B runs from one sendEvent to the next
ConsumeAnthropic ==
    /\ provider = "anthropic" /\ cpc = "read" /\ ~crashed
    /\ \E x \in CancelledRead(body, buf, cresp) \cup AnthropicLoop(body, buf, cresp) : Act(x)
    /\ UNCHANGED <<sessionVars, provider, registry, storeVars, runVars, ctxDone, ctxChildDone, events, sent>>

\* ------------------------------------------------------------------------
\* The session store (agg.Store)
\* ------------------------------------------------------------------------

\* EphemeralStore.Extend: append the messages, combine the usage
StoreExtend(m, u) ==
    /\ storeMsgs' = storeMsgs \o m
    /\ storeUsage' = storeUsage + u

\* ------------------------------------------------------------------------
\* The tool registry
\* ------------------------------------------------------------------------

\* ToolRegistry.Call: "" when the handler returned a result, else the error
ToolRegistryCall(name) ==
    IF name \notin registry THEN "tool not found"
    ELSE IF name = "broken" THEN "error calling handler"
    ELSE ""

\* (mutant) a failed call leaves the result empty
ToolResultTextNoError(name) ==
    IF ToolRegistryCall(name) # "" THEN <<>> ELSE <<"result of", name>>

\* the Result of the core.ToolResult the tool goroutine builds
ToolResultText(name) ==
    IF ToolRegistryCall(name) # ""
    THEN <<"error calling tool", name, ToolRegistryCall(name)>>
    ELSE <<"result of", name>>

\* ------------------------------------------------------------------------
\* Agent.Run
\* ------------------------------------------------------------------------

sysPrompt == <<"sysPrompt">>

toolCallLimitReachedPrompt == <<"toolCallLimitReachedPrompt">>

\* Run returns err without the deferred cancel()
RunReturnsWithoutCancel(err) ==
    /\ pc' = "returned"
    /\ runErr' = err
    /\ ctxChildDone' = ctxChildDone

\* Run returns err: the deferred cancel() of ctxChild runs
RunReturns(err) ==
    /\ pc' = "returned"
    /\ runErr' = err
    /\ ctxChildDone' = TRUE

\* (mutant) every message from the boundary on is stored
MsgsToStoreAll(ms, idx) == SubSeq(ms, idx + 1, Len(ms))

\* msgsToStore taken from the whole working slice, not from the persist
\* boundary on
MsgsToStoreFromStart(ms, idx) == SelectSeq(ms, LAMBDA m : m.type # "reasoning")

\* the messages Run hands to Store.Extend: msgs[msgsStoreIdx:] without the
\* Reasoning messages
MsgsToStore(ms, idx) ==
    SelectSeq(SubSeq(ms, idx + 1, Len(ms)), LAMBDA m : m.type # "reasoning")

\* the request of the round forbids tool calls, or carries no tools
CanCall == registry # {} /\ ~(provider = "anthropic" /\ disableTools')

\* Run up to the loop: read the store, remember the boundary, add the system
\* prompt to an empty session, add the user's input.
RunBegin ==
    /\ pc = "idle" /\ ~crashed
    /\ msgsStoreIdx' = Len(storeMsgs)
    /\ msgs' = storeMsgs
               \o (IF Len(storeMsgs) = 0 THEN <<NewMsgContent("system", sysPrompt)>> ELSE <<>>)
               \o <<NewMsgContent("user", <<"input">>)>>
    /\ usage' = 0
    /\ round' = 0
    /\ pc' = "round"
    /\ storeAtStart' = <<storeMsgs, storeUsage>>
    /\ UNCHANGED <<sessionVars, provider, registry, storeVars, resp, toolCallCount, collected, toolResults,
                   workers, runErr, disableTools, opened, extended, roundBase,
                   ctxDone, ctxChildDone, streamVars, crashed>>

\* the steering message is appended in the final round for both providers
RoundHistorySteersBoth(ms, last) ==
    IF last
    THEN Append(ms, NewMsgContent("system", toolCallLimitReachedPrompt))
    ELSE ms

\* the history a round passes to OpenStream: in the final round, for provider
\* openai, the working slice with the steering message appended
RoundHistory(ms, last) ==
    IF last /\ provider = "openai"
    THEN Append(ms, NewMsgContent("system", toolCallLimitReachedPrompt))
    ELSE ms

\* The head of a round: the ctx.Err() check, the final-round policy,
\* OpenStream, the channels and `go stream.Consume`.
RunRound ==
    /\ pc = "round" /\ ~crashed
    /\ \/ \* ctx.Err() != nil
          /\ ctxDone
          /\ RunReturns("context error")
          /\ UNCHANGED <<msgs, disableTools, opened, roundBase, resp, toolCallCount,
                         collected, toolResults, workers, streamVars>>
       \/ /\ ~ctxDone
          /\ LET last == round = agentRoundsMax - 1
                 req == RoundHistory(msgs, last)
             IN
             /\ msgs' = req
             /\ disableTools' = (last /\ provider = "anthropic")
             /\ \/ \* OpenStream fails: the request fails or the status is not 2xx
                   /\ RunReturns("error opening stream")
                   /\ UNCHANGED <<opened, roundBase, resp, toolCallCount, collected,
                                  toolResults, workers, streamVars>>
                \/ \* OpenStream returns a stream
                   /\ opened' = Append(opened, [round |-> round, msgs |-> req,
                                                disableTools |-> disableTools'])
                   /\ roundBase' = Len(req)
                   /\ \E sh \in Shapes(CanCall, round) :
                        \E b \in RoundBodies(provider, round, sh) : body' = b
                   /\ cpc' = "read"
                   /\ buf' = <<>>
                   /\ pend' = NoPend
                   /\ cresp' = ZeroResponse
                   /\ events' = <<>>
                   /\ eventsClosed' = FALSE
                   /\ bodyClosed' = FALSE
                   /\ sent' = <<>>
                   /\ resp' = ZeroResponse
                   /\ toolCallCount' = 0
                   /\ collected' = 0
                   /\ toolResults' = <<>>
                   /\ workers' = <<>>
                   /\ pc' = "events"
                   /\ UNCHANGED <<runErr, ctxChildDone>>
    /\ UNCHANGED <<sessionVars, provider, registry, storeVars, msgsStoreIdx, round, usage, extended,
                   storeAtStart, ctxDone, crashed>>

\* (mutant) an Error event is skipped like a delta
IsStreamErrorNever(event) == FALSE

\* case core.EvError
IsStreamError(event) == event.type = "EvError"

\* `for event := range events`: one event
RunEvent ==
    /\ pc = "events" /\ ~crashed
    /\ events # <<>>
    /\ events' = Tail(events)
    /\ LET event == Head(events) IN
       CASE event.type = "EvToolCall" ->
              \* start the tool call at once
              /\ toolCallCount' = toolCallCount + 1
              /\ workers' = Append(workers, [id |-> event.call.id, name |-> event.call.name,
                                             st |-> "call", result |-> <<>>])
              /\ UNCHANGED <<pc, runErr, ctxChildDone, resp, crashed>>
         [] event.type = "EvResp" ->
              \* resp.Messages[len(resp.Messages)-1] panics on an empty list
              /\ resp' = event.resp
              /\ crashed' = (event.resp.msgs = <<>>)
              /\ UNCHANGED <<pc, runErr, ctxChildDone, toolCallCount, workers>>
         [] IsStreamError(event) ->
              /\ RunReturns("error during stream")
              /\ UNCHANGED <<resp, toolCallCount, workers, crashed>>
         [] OTHER ->
              \* EvDelta, EvDeltaReason
              UNCHANGED <<pc, runErr, ctxChildDone, resp, toolCallCount, workers, crashed>>
    /\ UNCHANGED <<sessionVars, provider, registry, storeVars, msgs, msgsStoreIdx, round, usage, collected,
                   toolResults, disableTools, opened, extended, storeAtStart, roundBase,
                   ctxDone, body, cpc, buf, pend, cresp, eventsClosed, bodyClosed, sent>>

\* (mutant) the loop runs one round more
LoopGoesOnOneMore(r) == r < agentRoundsMax + 1

\* `for round := range agentRoundsMax`
LoopGoesOn(r) == r < agentRoundsMax

\* the round goes on to the next one, or the loop is over
NextRound ==
    /\ round' = round + 1
    /\ pc' = IF LoopGoesOn(round + 1) THEN "round" ELSE "persist"

\* the events channel is closed and drained: the response's messages and usage
\* are added; without tool calls the loop is left
RunStreamDone ==
    /\ pc = "events" /\ ~crashed
    /\ events = <<>> /\ eventsClosed
    /\ msgs' = msgs \o resp.msgs
    /\ usage' = usage + resp.usage
    /\ IF toolCallCount = 0
       THEN pc' = "persist" /\ UNCHANGED round
       ELSE pc' = "collect" /\ UNCHANGED round
    /\ UNCHANGED <<sessionVars, provider, registry, storeVars, msgsStoreIdx, resp, toolCallCount, collected,
                   toolResults, workers, runErr, disableTools, opened, extended, storeAtStart,
                   roundBase, ctxDone, ctxChildDone, streamVars, crashed>>

\* (mutant) the collecting loop stops after the first result
CollectedAllAfterOne(n, count) == n >= 1

\* `for range toolCallCount` has run n times
CollectedAll(n, count) == n = count

\* one turn of the collecting loop: the select on ctx.Done() and toolResults
RunCollect ==
    /\ pc = "collect" /\ ~crashed
    /\ \/ \* case <-ctx.Done()
          /\ ctxDone
          /\ RunReturns("context error")
          /\ UNCHANGED <<msgs, collected, toolResults, round>>
       \/ \* case toolResult := <-toolResults
          /\ toolResults # <<>>
          /\ toolResults' = Tail(toolResults)
          /\ msgs' = Append(msgs, NewMsgToolResult(Head(toolResults).id,
                                                   Head(toolResults).result))
          /\ collected' = collected + 1
          /\ IF CollectedAll(collected + 1, toolCallCount)
             THEN NextRound
             ELSE UNCHANGED <<pc, round>>
          /\ UNCHANGED <<runErr, ctxChildDone>>
    /\ UNCHANGED <<sessionVars, provider, registry, storeVars, msgsStoreIdx, usage, resp, toolCallCount,
                   workers, disableTools, opened, extended, storeAtStart, roundBase,
                   ctxDone, streamVars, crashed>>

\* after the loop: Store.Extend with the filtered messages, and the return
RunPersist ==
    /\ pc = "persist" /\ ~crashed
    /\ extended' = Append(extended, [msgs |-> MsgsToStore(msgs, msgsStoreIdx),
                                     usage |-> usage])
    /\ \/ \* Extend returns nil
          /\ StoreExtend(MsgsToStore(msgs, msgsStoreIdx), usage)
          /\ RunReturns("nil")
       \/ \* Extend fails (a durable store): nothing is stored
          /\ UNCHANGED storeVars
          /\ RunReturns("error extending store")
    /\ UNCHANGED <<sessionVars, provider, registry, msgs, msgsStoreIdx, round, usage, resp, toolCallCount,
                   collected, toolResults, workers, disableTools, opened, storeAtStart,
                   roundBase, ctxDone, streamVars, crashed>>

\* ------------------------------------------------------------------------
\* The tool goroutines of a round
\* ------------------------------------------------------------------------

\* a.tools.Call returns in goroutine i
ToolCallReturns(i) ==
    /\ ~crashed
    /\ i \in 1..Len(workers)
    /\ workers[i].st = "call"
    /\ workers' = [workers EXCEPT ![i].st = "send",
                                  ![i].result = ToolResultText(workers[i].name)]
    /\ UNCHANGED <<sessionVars, provider, registry, storeVars, pc, msgs, msgsStoreIdx, round, usage, resp,
                   toolCallCount, collected, toolResults, runErr, disableTools, opened,
                   extended, storeAtStart, roundBase, ctxDone, ctxChildDone, streamVars,
                   crashed>>

\* the toolResult of a goroutine without the id of its call
ToolResultWithoutID(w) == [id |-> NoId, result |-> w.result]

\* core.ToolResult{ID: tc.ID} with the Result the goroutine set
ToolResultOf(w) == [id |-> w.id, result |-> w.result]

\* the select of goroutine i: `toolResults <- toolResult`
ToolResultSent(i) ==
    /\ ~crashed
    /\ i \in 1..Len(workers)
    /\ workers[i].st = "send"
    /\ Len(toolResults) < ToolResultsCap
    /\ toolResults' = Append(toolResults, ToolResultOf(workers[i]))
    /\ workers' = [workers EXCEPT ![i].st = "done"]
    /\ UNCHANGED <<sessionVars, provider, registry, storeVars, pc, msgs, msgsStoreIdx, round, usage, resp,
                   toolCallCount, collected, runErr, disableTools, opened, extended,
                   storeAtStart, roundBase, ctxDone, ctxChildDone, streamVars, crashed>>

\* the select of goroutine i: `<-ctxChild.Done()`, the result is dropped
ToolResultDropped(i) ==
    /\ ~crashed
    /\ i \in 1..Len(workers)
    /\ workers[i].st = "send"
    /\ ctxChildDone
    /\ workers' = [workers EXCEPT ![i].st = "dropped"]
    /\ UNCHANGED <<sessionVars, provider, registry, storeVars, pc, msgs, msgsStoreIdx, round, usage, resp,
                   toolCallCount, collected, toolResults, runErr, disableTools, opened,
                   extended, storeAtStart, roundBase, ctxDone, ctxChildDone, streamVars,
                   crashed>>

\* ------------------------------------------------------------------------
\* The caller
\* ------------------------------------------------------------------------

\* the caller cancels ctx while Run executes (before a round, while the events
\* are consumed, while the tool results are collected); ctxChild is derived
\* from it
CtxCancel ==
    /\ pc \in {"round", "events", "collect"} /\ ~crashed
    /\ ~ctxDone
    /\ ctxDone' = TRUE
    /\ ctxChildDone' = TRUE
    /\ UNCHANGED <<sessionVars, provider, registry, storeVars, runVars, streamVars, crashed>>

\* ------------------------------------------------------------------------
\* The system: one Run of an agent, its stream and its tool goroutines
\* ------------------------------------------------------------------------

\* a session as an earlier Run left it: the system prompt, a user input and
\* the assistant's answer, with the usage of one response
EarlierSession ==
    <<NewMsgContent("system", sysPrompt), NewMsgContent("user", <<"earlier">>),
      NewMsgContent("assistant", <<"a", "b">>)>>

\* a session as an earlier Run of an agent of provider A left it that called
\* a tool in every round up to the last: the steering message of its last
\* round is among the stored messages, the usage is that of its four responses
CappedSession ==
    <<NewMsgContent("system", sysPrompt), NewMsgContent("user", <<"input">>),
      NewMsgToolCall(CallId(0, 1), "read", <<"{", "}">>),
      NewMsgToolResult(CallId(0, 1), <<"result of", "read">>),
      NewMsgToolCall(CallId(1, 1), "read", <<"{", "}">>),
      NewMsgToolResult(CallId(1, 1), <<"result of", "read">>),
      NewMsgToolCall(CallId(2, 1), "read", <<"{", "}">>),
      NewMsgToolResult(CallId(2, 1), <<"result of", "read">>),
      NewMsgContent("system", toolCallLimitReachedPrompt),
      NewMsgContent("assistant", <<"a", "b">>)>>

InitRun ==
    /\ pc = "idle"
    /\ msgs = <<>>
    /\ msgsStoreIdx = 0
    /\ round = 0
    /\ usage = 0
    /\ resp = ZeroResponse
    /\ toolCallCount = 0
    /\ collected = 0
    /\ toolResults = <<>>
    /\ workers = <<>>
    /\ runErr = ""
    /\ disableTools = FALSE
    /\ opened = <<>>
    /\ extended = <<>>
    /\ storeAtStart = <<storeMsgs, storeUsage>>
    /\ roundBase = 0

\* ------------------------------------------------------------------------
\* The stores: core.Usage, the JSON of core.Msg, EphemeralStore, SQLiteStore
\* ------------------------------------------------------------------------

SessionIDs == {"s1", "s2"}

NewUsage(input, cached, output, reasoning, total, cost) ==
    [Input |-> input, Cached |-> cached, Output |-> output, Reasoning |-> reasoning,
     Total |-> total, Cost |-> cost]

\* core.Usage{}
ZeroUsage == NewUsage(0, 0, 0, 0, 0, 0)

UsageIncOverwrites(u, ou) == ou

\* u.Inc(ou)
UsageInc(u, ou) ==
    NewUsage(u.Input + ou.Input, u.Cached + ou.Cached, u.Output + ou.Output,
             u.Reasoning + ou.Reasoning, u.Total + ou.Total, u.Cost + ou.Cost)

\* MsgType is an int; json.Marshal writes its number
MsgTypeNumber(type) ==
    CASE type = "reasoning" -> 1
      [] type = "content" -> 2
      [] type = "tool_call" -> 3
      [] type = "tool_result" -> 4
      [] OTHER -> 0

MsgTypeOfNumber(n) ==
    CASE n = 1 -> "reasoning"
      [] n = 2 -> "content"
      [] n = 3 -> "tool_call"
      [] n = 4 -> "tool_result"
      [] OTHER -> "unknown"

\* json.Marshal(msg): the JSON object of a Msg. A member tagged omitempty is
\* left out when its pointer is nil (here <<>>), else it is the object of the
\* struct pointed to (here a sequence of one record). CachedTransform, a nil
\* json.RawMessage in a message nobody transformed, is written as null.
Marshal(msg) ==
    [type |-> MsgTypeNumber(msg.type),
     reasoning |-> IF msg.type = "reasoning"
                   THEN <<[encrypted |-> msg.enc, text |-> msg.text]>> ELSE <<>>,
     content |-> IF msg.type = "content"
                 THEN <<[role |-> msg.role, text |-> msg.text]>> ELSE <<>>,
     tool_call |-> IF msg.type = "tool_call"
                   THEN <<[id |-> msg.id, name |-> msg.name, arguments |-> msg.text]>>
                   ELSE <<>>,
     tool_result |-> IF msg.type = "tool_result"
                     THEN <<[id |-> msg.id, result |-> msg.text]>> ELSE <<>>,
     CachedTransform |-> "null"]

\* json.Unmarshal(payload, &msg), as the fields of the model's messages: Type
\* from the number, the fields of whichever member is present. (The
\* CachedTransform of the message read is the four bytes `null`.)
Unmarshal(payload) ==
    [type |-> MsgTypeOfNumber(payload.type),
     role |-> IF payload.content # <<>> THEN payload.content[1].role ELSE "",
     id |-> IF payload.tool_call # <<>> THEN payload.tool_call[1].id
            ELSE IF payload.tool_result # <<>> THEN payload.tool_result[1].id
            ELSE NoId,
     name |-> IF payload.tool_call # <<>> THEN payload.tool_call[1].name ELSE "",
     text |-> IF payload.reasoning # <<>> THEN payload.reasoning[1].text
              ELSE IF payload.content # <<>> THEN payload.content[1].text
              ELSE IF payload.tool_call # <<>> THEN payload.tool_call[1].arguments
              ELSE IF payload.tool_result # <<>> THEN payload.tool_result[1].result
              ELSE <<>>,
     enc |-> IF payload.reasoning # <<>> THEN payload.reasoning[1].encrypted ELSE <<>>]

\* NewEphemeralStore(): two empty maps
NewEphemeralStore == [m |-> [key \in {} |-> <<>>], u |-> [key \in {} |-> ZeroUsage]]

\* EphemeralStore.Messages
EphemeralStoreMessages(s, key) == IF key \in DOMAIN s.m THEN s.m[key] ELSE <<>>

\* EphemeralStore.Usage
EphemeralStoreUsage(s, key) == IF key \in DOMAIN s.u THEN s.u[key] ELSE ZeroUsage

EphemeralStoreExtendOverwrites(s, key, ms, us) ==
    [m |-> [k \in DOMAIN s.m \cup {key} |-> IF k = key THEN ms ELSE s.m[k]],
     u |-> [k \in DOMAIN s.u \cup {key} |->
                IF k = key THEN UsageInc(EphemeralStoreUsage(s, key), us) ELSE s.u[k]]]

\* EphemeralStore.Extend: the store afterwards
EphemeralStoreExtend(s, key, ms, us) ==
    [m |-> [k \in DOMAIN s.m \cup {key} |->
                IF k = key THEN EphemeralStoreMessages(s, key) \o ms ELSE s.m[k]],
     u |-> [k \in DOMAIN s.u \cup {key} |->
                IF k = key THEN UsageInc(EphemeralStoreUsage(s, key), us) ELSE s.u[k]]]

\* the database after initSchema on a new file: the tables messages (in the
\* order of their AUTOINCREMENT id) and usage (one row per session_id)
NewDb == [messages |-> <<>>, usage |-> [session_id \in {} |-> <<>>]]

\* no transaction: Extend is not running
NoTx == [step |-> "none", sessionID |-> "", msgs |-> <<>>, usage |-> ZeroUsage,
         inserted |-> <<>>, upsert |-> <<>>, dbAtCall |-> NewDb,
         ephAtCall |-> NewEphemeralStore]

\* what a call returned; before the first call, nothing
Returned(op, key, ms, us, err) ==
    [op |-> op, key |-> key, msgs |-> ms, usage |-> us, err |-> err,
     dbAtCall |-> NewDb, ephAtCall |-> NewEphemeralStore]

\* what a call of Extend returned, with the database and the cache (or the
\* ephemeral store) as they were when it was called
ExtendReturned(key, err, d, e) ==
    [Returned("Extend", key, <<>>, ZeroUsage, err) EXCEPT !.dbAtCall = d, !.ephAtCall = e]

NoRet == Returned("", "", <<>>, ZeroUsage, "")

\* the history of a handle: how often the store was closed and opened again,
\* how many calls of Extend were made in all, and, since the handle was
\* opened, how many calls of Messages were made (none, one, or more) and
\* whether Extend returned nil
NewHandle == [opens |-> 0, extends |-> 0, read |-> "none", extended |-> FALSE]

ReadOnceMore(read) == IF read = "none" THEN "one" ELSE "more"

\* a store just constructed, of either kind
InitStores(kind) ==
    /\ storeKind = kind
    /\ db = NewDb
    /\ ephemeral = NewEphemeralStore
    /\ tx = NoTx
    /\ committed = [key \in SessionIDs |-> [msgs |-> <<>>, usages |-> <<>>]]
    /\ ret = NoRet
    /\ handle = NewHandle

InitStream ==
    /\ buf = <<>>
    /\ pend = NoPend
    /\ cresp = ZeroResponse
    /\ events = <<>>
    /\ eventsClosed = FALSE
    /\ bodyClosed = FALSE
    /\ sent = <<>>

Init ==
    /\ provider \in {"openai", "anthropic"}
    /\ \/ registry = {} /\ storeMsgs = <<>> /\ storeUsage = 0
       \/ registry = {"read", "broken"} /\ storeMsgs = <<>> /\ storeUsage = 0
       \/ registry = {"read", "broken"} /\ storeMsgs = EarlierSession /\ storeUsage = 1
       \/ /\ provider = "openai" /\ registry = {"read", "broken"}
          /\ storeMsgs = CappedSession /\ storeUsage = agentRoundsMax
    /\ InitRun
    /\ ctxDone = FALSE
    /\ ctxChildDone = FALSE
    /\ body = <<>>
    /\ cpc = "idle"
    /\ InitStream
    /\ crashed = FALSE
    /\ InitStores("EphemeralStore")
    /\ OthersUnused({})

Next ==
    \/ RunBegin
    \/ RunRound
    \/ RunEvent
    \/ RunStreamDone
    \/ RunCollect
    \/ RunPersist
    \/ \E i \in 1..MaxCalls : ToolCallReturns(i)
    \/ \E i \in 1..MaxCalls : ToolResultSent(i)
    \/ \E i \in 1..MaxCalls : ToolResultDropped(i)
    \/ CtxCancel
    \/ ConsumeOpenAI
    \/ ConsumeAnthropic
    \/ SendEventSent
    \/ SendEventCtxDone

Spec == Init /\ [][Next]_vars

\* ------------------------------------------------------------------------
\* One stream alone: Consume and a consumer that keeps receiving
\* ------------------------------------------------------------------------

\* every body of a round, as sent or damaged at any line
StreamBodies(prov) ==
    UNION {LET b == ProviderBody(prov, 0, sh) IN
           {b} \cup UNION {Damaged(b, n) : n \in 0..Len(b)}
               \cup {Prefix(b, n) \o <<Field>> \o Suffix(b, n) : n \in 0..Len(b)}
               \cup (IF prov = "openai"
                     THEN {WithErrorEvent(b, n) : n \in {0, 2, Len(b) - 2}}
                     ELSE {})
           : sh \in Shapes(TRUE, 0)}

\* a body of adapter B with two text blocks around a thinking block
AnthropicBodyTwoTexts ==
    Frame(Payload(stMsgStart, "", <<>>, "", <<>>, <<>>, 0))
    \o AnthropicBlock("text", <<>>, "", <<"text_delta", "text_delta">>, <<"a", "b">>)
    \o AnthropicBlock("thinking", <<>>, "", <<"thinking_delta">>, <<"think">>)
    \o AnthropicBlock("text", <<>>, "", <<"text_delta">>, <<"c">>)
    \o Frame(Payload(stMsgDelta, "", <<>>, "", <<>>, <<>>, 1))
    \o Frame(Payload(stMsgStop, "", <<>>, "", <<>>, <<>>, 0))

InitConsume ==
    /\ provider \in {"openai", "anthropic"}
    /\ registry = {}
    /\ storeMsgs = <<>> /\ storeUsage = 0
    /\ InitRun
    /\ ctxDone = FALSE
    /\ ctxChildDone = FALSE
    /\ body \in StreamBodies(provider)
               \cup (IF provider = "anthropic"
                     THEN UNION {AnthropicBodyUnknown(0, sh) : sh \in Shapes(TRUE, 0)}
                            \cup {AnthropicBodyTwoTexts}
                     ELSE {})
    /\ cpc = "read"
    /\ InitStream
    /\ crashed = FALSE
    /\ InitStores("EphemeralStore")
    /\ OthersUnused({})

\* the consumer receives the next event
Receive ==
    /\ pc = "idle" /\ cpc # "idle" /\ ~crashed
    /\ events # <<>>
    /\ events' = Tail(events)
    /\ UNCHANGED <<sessionVars, provider, registry, storeVars, runVars, ctxDone, ctxChildDone,
                   body, cpc, buf, pend, cresp, eventsClosed, bodyClosed, sent, crashed>>

\* the context handed to Consume is cancelled
CancelStream ==
    /\ pc = "idle" /\ cpc # "idle" /\ ~crashed
    /\ ~ctxChildDone
    /\ ctxChildDone' = TRUE
    /\ UNCHANGED <<sessionVars, provider, registry, storeVars, runVars, ctxDone, streamVars, crashed>>

NextConsume ==
    \/ ConsumeOpenAI
    \/ ConsumeAnthropic
    \/ SendEventSent
    \/ SendEventCtxDone
    \/ Receive
    \/ CancelStream

SpecConsume == InitConsume /\ [][NextConsume]_vars

\* fairness: the Go scheduler runs every goroutine that can take a step (Run,
\* Consume, the tool goroutines); the caller need never cancel
RunStep ==
    RunBegin \/ RunRound \/ RunEvent \/ RunStreamDone \/ RunCollect \/ RunPersist

ConsumeStep ==
    ConsumeOpenAI \/ ConsumeAnthropic \/ SendEventSent \/ SendEventCtxDone

ToolStep ==
    \E i \in 1..MaxCalls : ToolCallReturns(i) \/ ToolResultSent(i) \/ ToolResultDropped(i)

FairSpec ==
    Spec /\ WF_vars(RunStep) /\ WF_vars(ConsumeStep) /\ WF_vars(ToolStep)

\* ------------------------------------------------------------------------
\* One round of Run with more tool calls than toolResults holds
\* ------------------------------------------------------------------------

\* most tool calls the provider requests in the round
MaxFanOut == 5

\* how many tool calls the round's response requests: one, as many as the
\* channel holds, or more
FanOuts == {1, ToolResultsCap, MaxFanOut}

\* Run on an empty session after RunBegin and the head of round 0: the stream
\* is opened, Consume is about to read it
RoundOpened ==
    /\ provider \in {"openai", "anthropic"}
    /\ registry = {"read", "broken"}
    /\ storeMsgs = <<>> /\ storeUsage = 0
    /\ pc = "events"
    /\ msgs = <<NewMsgContent("system", sysPrompt), NewMsgContent("user", <<"input">>)>>
    /\ msgsStoreIdx = 0
    /\ round = 0
    /\ usage = 0
    /\ resp = ZeroResponse
    /\ toolCallCount = 0
    /\ collected = 0
    /\ toolResults = <<>>
    /\ workers = <<>>
    /\ runErr = ""
    /\ disableTools = FALSE
    /\ opened = <<[round |-> 0, msgs |-> msgs, disableTools |-> FALSE]>>
    /\ extended = <<>>
    /\ storeAtStart = <<storeMsgs, storeUsage>>
    /\ roundBase = Len(msgs)
    /\ ctxDone = FALSE
    /\ ctxChildDone = FALSE
    /\ cpc = "read"
    /\ InitStream
    /\ crashed = FALSE
    /\ InitStores("EphemeralStore")
    /\ OthersUnused({})

\* the stream carries a response with k tool calls
InitFanOut ==
    /\ RoundOpened
    /\ \E k \in FanOuts : body = ProviderBody(provider, 0, Shape(FALSE, FALSE, k))

\* the round: Consume, the event loop, the tool goroutines, the collecting
\* loop; the caller may cancel
NextFanOut ==
    \/ RunEvent
    \/ RunStreamDone
    \/ RunCollect
    \/ \E i \in 1..MaxFanOut : ToolCallReturns(i)
    \/ \E i \in 1..MaxFanOut : ToolResultSent(i)
    \/ \E i \in 1..MaxFanOut : ToolResultDropped(i)
    \/ CtxCancel
    \/ ConsumeOpenAI
    \/ ConsumeAnthropic
    \/ SendEventSent
    \/ SendEventCtxDone

SpecFanOut == InitFanOut /\ [][NextFanOut]_vars

\* ------------------------------------------------------------------------
\* The same round on a stream that breaks after its tool calls
\* ------------------------------------------------------------------------

\* the body b hit by a read error before its last frame
BrokenAfterCalls(b) ==
    Prefix(b, Len(b) - 2) \o <<ReadErr>> \o Suffix(b, Len(b) - 2)

\* the stream carries MaxFanOut tool calls and then breaks
InitBrokenRound ==
    /\ RoundOpened
    /\ body = BrokenAfterCalls(ProviderBody(provider, 0, Shape(FALSE, FALSE, MaxFanOut)))

ToolStepFanOut ==
    \E i \in 1..MaxFanOut : ToolCallReturns(i) \/ ToolResultSent(i) \/ ToolResultDropped(i)

\* the event loop up to the return of Run on the Error event, Consume and the
\* tool goroutines; the caller does not cancel
NextBrokenRound ==
    \/ RunEvent
    \/ ToolStepFanOut
    \/ ConsumeOpenAI
    \/ ConsumeAnthropic
    \/ SendEventSent
    \/ SendEventCtxDone

SpecBrokenRound == InitBrokenRound /\ [][NextBrokenRound]_vars

\* the goroutines get to run: Consume takes its next step when it can, a tool
\* handler returns, a select with a ready case is taken
FairSpecBrokenRound ==
    SpecBrokenRound /\ WF_vars(RunEvent) /\ WF_vars(ConsumeStep) /\ WF_vars(ToolStepFanOut)

\* ------------------------------------------------------------------------
\* A store alone: calls of Extend, Messages and Usage, closing and reopening
\* ------------------------------------------------------------------------

\* how many calls of Extend are made, and how often the store is reopened
MaxExtends == 2

MaxOpens == 1

\* the output tokens the cache counts for a session at most (Messages adds the
\* usage it loads to the usage the cache holds, every time it loads)
MaxTokens == 4

\* the message lists handed to Extend
MsgLists ==
    {<<>>,
     <<NewMsgContent("user", <<"hi">>), NewMsgReasoning(<<"sig">>, <<"think">>)>>,
     <<NewMsgToolCall(CallId(0, 1), "read", <<"{", "}">>),
       NewMsgToolResult(CallId(0, 1), <<"ok">>)>>}

\* The usages handed to Extend: Total is what the adapter computed (adapter A
\* counts input and output, not the cached tokens); a usage may have neither
\* input tokens nor cost.
Usages == {NewUsage(1, 1, 1, 1, 2, 1), NewUsage(0, 1, 1, 0, 1, 0)}

agentVars ==
    <<provider, registry, storeVars, runVars, ctxDone, ctxChildDone, streamVars, crashed,
      pureVars>>

\* what the calls of Extend that returned nil were given, per session
Commits(key, ms, us) ==
    [committed EXCEPT ![key].msgs = @ \o ms, ![key].usages = Append(@, us)]

\* a call of EphemeralStore.Extend
EphemeralExtend ==
    /\ storeKind = "EphemeralStore"
    /\ handle.extends < MaxExtends
    /\ \E key \in SessionIDs, ms \in MsgLists, us \in Usages :
        /\ ephemeral' = EphemeralStoreExtend(ephemeral, key, ms, us)
        /\ committed' = Commits(key, ms, us)
        /\ ret' = ExtendReturned(key, "nil", db, ephemeral)
        /\ handle' = [handle EXCEPT !.extends = @ + 1, !.extended = TRUE]
    /\ UNCHANGED <<storeKind, db, tx, agentVars>>

\* a call of EphemeralStore.Messages
EphemeralMessages ==
    /\ storeKind = "EphemeralStore"
    /\ \E key \in SessionIDs :
        /\ ret' = Returned("Messages", key, EphemeralStoreMessages(ephemeral, key),
                           ZeroUsage, "nil")
        /\ handle' = [handle EXCEPT !.read = ReadOnceMore(@)]
    /\ UNCHANGED <<storeKind, db, ephemeral, tx, committed, agentVars>>

\* a call of EphemeralStore.Usage
EphemeralUsage ==
    /\ storeKind = "EphemeralStore"
    /\ \E key \in SessionIDs :
        ret' = Returned("Usage", key, <<>>, EphemeralStoreUsage(ephemeral, key), "nil")
    /\ UNCHANGED <<storeKind, db, ephemeral, tx, committed, handle, agentVars>>

loadMessagesEverySession(sessionID) ==
    [i \in 1..Len(db.messages) |-> Unmarshal(db.messages[i].payload)]

loadMessagesNewestFirst(sessionID) ==
    LET OfSession(row) == row.session_id = sessionID
        rows == SelectSeq(db.messages, OfSession)
    IN [i \in 1..Len(rows) |-> Unmarshal(rows[Len(rows) + 1 - i].payload)]

\* loadMessages: the payloads of the session in the order of their id, decoded
loadMessages(sessionID) ==
    LET OfSession(row) == row.session_id = sessionID
        rows == SelectSeq(db.messages, OfSession)
    IN [i \in 1..Len(rows) |-> Unmarshal(rows[i].payload)]

\* loadUsage: the session's row with Total recomputed; no row, the zero Usage
loadUsage(sessionID) ==
    IF sessionID \notin DOMAIN db.usage THEN ZeroUsage
    ELSE LET row == db.usage[sessionID]
         IN NewUsage(row.input_tokens, row.cached_tokens, row.output_tokens,
                     row.reasoning_tokens,
                     row.input_tokens + row.cached_tokens + row.output_tokens, row.cost)

\* what SQLiteStore.Messages returns when the database can be read
SQLiteStoreMessages(sessionID) ==
    IF Len(EphemeralStoreMessages(ephemeral, sessionID)) > 0
    THEN EphemeralStoreMessages(ephemeral, sessionID)
    ELSE loadMessages(sessionID)

\* what SQLiteStore.Usage returns when the database can be read
SQLiteStoreUsage(sessionID) ==
    IF EphemeralStoreUsage(ephemeral, sessionID).Input # 0
        \/ EphemeralStoreUsage(ephemeral, sessionID).Cost # 0
    THEN EphemeralStoreUsage(ephemeral, sessionID)
    ELSE loadUsage(sessionID)

CacheAfterLoadKeepsMessages(sessionID, failed) ==
    IF failed = "" THEN EphemeralStoreExtend(ephemeral, sessionID, loadMessages(sessionID),
                                             loadUsage(sessionID))
    ELSE IF failed = "usage"
    THEN EphemeralStoreExtend(ephemeral, sessionID, loadMessages(sessionID), ZeroUsage)
    ELSE ephemeral

\* the cache after the slow path of Messages: extended by the messages and the
\* usage loaded, or, when loadMessages or loadUsage failed, as it was
CacheAfterLoad(sessionID, failed) ==
    IF failed = "" THEN EphemeralStoreExtend(ephemeral, sessionID, loadMessages(sessionID),
                                             loadUsage(sessionID))
    ELSE ephemeral

\* A call of SQLiteStore.Messages. The cache answers when it holds messages of
\* the session; else the messages and the usage are loaded and put into the
\* cache, and when a load fails nothing is cached and the list returned is
\* empty.
SQLiteMessages ==
    /\ storeKind = "SQLiteStore" /\ tx = NoTx
    /\ \E sessionID \in SessionIDs, failed \in {"", "messages", "usage"} :
        /\ IF Len(EphemeralStoreMessages(ephemeral, sessionID)) > 0
           THEN /\ failed = ""
                /\ ephemeral' = ephemeral
                /\ ret' = Returned("Messages", sessionID,
                                   EphemeralStoreMessages(ephemeral, sessionID),
                                   ZeroUsage, "nil")
           ELSE IF failed = ""
           THEN /\ EphemeralStoreUsage(ephemeral, sessionID).Output
                        + loadUsage(sessionID).Output <= MaxTokens
                /\ ephemeral' = CacheAfterLoad(sessionID, failed)
                /\ ret' = Returned("Messages", sessionID, loadMessages(sessionID),
                                   ZeroUsage, "nil")
           ELSE /\ ephemeral' = CacheAfterLoad(sessionID, failed)
                /\ ret' = Returned("Messages", sessionID, <<>>, ZeroUsage,
                                   IF failed = "messages" THEN "failed to load messages"
                                   ELSE "failed to load usage")
        /\ handle' = [handle EXCEPT !.read = ReadOnceMore(@)]
    /\ UNCHANGED <<storeKind, db, tx, committed, agentVars>>

\* A call of SQLiteStore.Usage. The cache answers when its usage of the
\* session has input tokens or a cost; else the usage is loaded, and never
\* cached; when the load fails the usage returned is zero.
SQLiteUsage ==
    /\ storeKind = "SQLiteStore" /\ tx = NoTx
    /\ \E sessionID \in SessionIDs, loaded \in BOOLEAN :
        IF EphemeralStoreUsage(ephemeral, sessionID).Input # 0
            \/ EphemeralStoreUsage(ephemeral, sessionID).Cost # 0
        THEN /\ loaded
             /\ ret' = Returned("Usage", sessionID, <<>>,
                                EphemeralStoreUsage(ephemeral, sessionID), "nil")
        ELSE IF loaded
        THEN ret' = Returned("Usage", sessionID, <<>>, loadUsage(sessionID), "nil")
        ELSE ret' = Returned("Usage", sessionID, <<>>, ZeroUsage, "failed to load usage")
    /\ UNCHANGED <<storeKind, db, ephemeral, tx, committed, handle, agentVars>>

\* tx.Commit(): the rows the transaction inserted follow the rows of the
\* table, the usage row of the session is the one the upsert computed
Commit(d, t) ==
    [messages |-> d.messages \o t.inserted,
     usage |-> [session_id \in DOMAIN d.usage \cup {t.sessionID} |->
                    IF session_id = t.sessionID THEN t.upsert[1] ELSE d.usage[session_id]]]

RollbackKeepsInserts(d, t) == [d EXCEPT !.messages = @ \o t.inserted]

\* the deferred tx.Rollback() of a transaction that was not committed: the
\* database is as it was
Rollback(d, t) == d

\* SQLiteStore.Extend returns err: the deferred Rollback runs, the cache is
\* not touched
ExtendFails(err) ==
    /\ db' = Rollback(db, tx)
    /\ tx' = NoTx
    /\ ret' = ExtendReturned(tx.sessionID, err, tx.dbAtCall, tx.ephAtCall)
    /\ UNCHANGED <<ephemeral, committed, handle>>

\* Extend is called and begins its transaction
SQLiteExtendBegin ==
    /\ storeKind = "SQLiteStore" /\ tx = NoTx
    /\ handle.extends < MaxExtends
    /\ \E sessionID \in SessionIDs, ms \in MsgLists, us \in Usages, ok \in BOOLEAN :
        /\ handle' = [handle EXCEPT !.extends = @ + 1]
        /\ IF ok
           THEN /\ tx' = [step |-> "begun", sessionID |-> sessionID, msgs |-> ms,
                          usage |-> us, inserted |-> <<>>, upsert |-> <<>>,
                          dbAtCall |-> db, ephAtCall |-> ephemeral]
                /\ ret' = Returned("Extend", sessionID, <<>>, ZeroUsage, "")
           ELSE /\ tx' = NoTx
                /\ ret' = ExtendReturned(sessionID, "failed to begin transaction",
                                         db, ephemeral)
    /\ UNCHANGED <<storeKind, db, ephemeral, committed, agentVars>>

\* Extend prepares the INSERT statement
SQLiteExtendPrepare ==
    /\ storeKind = "SQLiteStore" /\ tx.step = "begun"
    /\ \/ /\ tx' = [tx EXCEPT !.step = "prepared"]
          /\ UNCHANGED <<db, ephemeral, committed, ret, handle>>
       \/ ExtendFails("failed to prepare statement")
    /\ UNCHANGED <<storeKind, agentVars>>

\* Extend marshals and inserts its next message
SQLiteExtendInsert ==
    /\ storeKind = "SQLiteStore" /\ tx.step = "prepared"
    /\ Len(tx.inserted) < Len(tx.msgs)
    /\ \/ /\ tx' = [tx EXCEPT !.inserted =
                        Append(@, [session_id |-> tx.sessionID,
                                   payload |-> Marshal(tx.msgs[Len(tx.inserted) + 1])])]
          /\ UNCHANGED <<db, ephemeral, committed, ret, handle>>
       \/ ExtendFails("failed to insert message")
    /\ UNCHANGED <<storeKind, agentVars>>

\* the usage row the upsert leaves for the session: a new row, or the row
\* there is with the new counts added column by column
Upsert(d, sessionID, us) ==
    IF sessionID \notin DOMAIN d.usage
    THEN [input_tokens |-> us.Input, cached_tokens |-> us.Cached,
          output_tokens |-> us.Output, reasoning_tokens |-> us.Reasoning, cost |-> us.Cost]
    ELSE [input_tokens |-> d.usage[sessionID].input_tokens + us.Input,
          cached_tokens |-> d.usage[sessionID].cached_tokens + us.Cached,
          output_tokens |-> d.usage[sessionID].output_tokens + us.Output,
          reasoning_tokens |-> d.usage[sessionID].reasoning_tokens + us.Reasoning,
          cost |-> d.usage[sessionID].cost + us.Cost]

\* Extend has inserted every message and upserts the usage
SQLiteExtendUpsert ==
    /\ storeKind = "SQLiteStore" /\ tx.step = "prepared"
    /\ Len(tx.inserted) = Len(tx.msgs)
    /\ \/ /\ tx' = [tx EXCEPT !.step = "upserted",
                              !.upsert = <<Upsert(db, tx.sessionID, tx.usage)>>]
          /\ UNCHANGED <<db, ephemeral, committed, ret, handle>>
       \/ ExtendFails("failed to upsert usage")
    /\ UNCHANGED <<storeKind, agentVars>>

\* Extend commits, then extends the cache and returns nil
SQLiteExtendCommit ==
    /\ storeKind = "SQLiteStore" /\ tx.step = "upserted"
    /\ \/ /\ db' = Commit(db, tx)
          /\ ephemeral' = EphemeralStoreExtend(ephemeral, tx.sessionID, tx.msgs, tx.usage)
          /\ committed' = Commits(tx.sessionID, tx.msgs, tx.usage)
          /\ tx' = NoTx
          /\ ret' = ExtendReturned(tx.sessionID, "nil", tx.dbAtCall, tx.ephAtCall)
          /\ handle' = [handle EXCEPT !.extended = TRUE]
       \/ ExtendFails("failed to commit transaction")
    /\ UNCHANGED <<storeKind, agentVars>>

\* Close, and NewSQLiteStore at the same path: the database as it is, a new
\* empty cache
SQLiteReopen ==
    /\ storeKind = "SQLiteStore" /\ tx = NoTx
    /\ handle.opens < MaxOpens
    /\ ephemeral' = NewEphemeralStore
    /\ ret' = Returned("NewSQLiteStore", "", <<>>, ZeroUsage, "nil")
    /\ handle' = [handle EXCEPT !.opens = @ + 1, !.read = "none", !.extended = FALSE]
    /\ UNCHANGED <<storeKind, db, tx, committed, agentVars>>

InitStore ==
    /\ provider = "openai"
    /\ registry = {}
    /\ storeMsgs = <<>> /\ storeUsage = 0
    /\ InitRun
    /\ ctxDone = FALSE
    /\ ctxChildDone = FALSE
    /\ body = <<>>
    /\ cpc = "idle"
    /\ InitStream
    /\ crashed = FALSE
    /\ \E kind \in {"EphemeralStore", "SQLiteStore"} : InitStores(kind)
    /\ OthersUnused({})

NextStore ==
    \/ EphemeralExtend
    \/ EphemeralMessages
    \/ EphemeralUsage
    \/ SQLiteMessages
    \/ SQLiteUsage
    \/ SQLiteExtendBegin
    \/ SQLiteExtendPrepare
    \/ SQLiteExtendInsert
    \/ SQLiteExtendUpsert
    \/ SQLiteExtendCommit
    \/ SQLiteReopen

SpecStore == InitStore /\ [][NextStore]_vars

\* ------------------------------------------------------------------------
\* Adapter B's request: fromCoreMsgs and the tool choice of OpenStream
\* ------------------------------------------------------------------------

\* every variable of the agent, the streams and the stores
baseVars ==
    <<provider, registry, storeVars, runVars, ctxDone, ctxChildDone, streamVars, crashed,
      storeKind, db, ephemeral, tx, committed, ret, handle>>

\* no agent runs, no stream is read, the store is new
InitBase ==
    /\ provider = "openai"
    /\ registry = {}
    /\ storeMsgs = <<>> /\ storeUsage = 0
    /\ InitRun
    /\ ctxDone = FALSE
    /\ ctxChildDone = FALSE
    /\ body = <<>>
    /\ cpc = "idle"
    /\ InitStream
    /\ crashed = FALSE
    /\ InitStores("EphemeralStore")

\* how long a history handed to OpenStream is at most
MaxHistory == 3

\* a msgContent; a string member that is empty is omitted from the JSON
msgContent(type, text, signature, thinking, id, name, args, toolUseID, output) ==
    [Type |-> type, Text |-> text, Signature |-> signature, Thinking |-> thinking,
     ID |-> id, Name |-> name, Args |-> args, ToolUseID |-> toolUseID, Output |-> output,
     CacheCtrl |-> ""]

newMsgText(text) == msgContent("text", text, <<>>, <<>>, NoId, "", <<>>, NoId, <<>>)

newMsgReason(signature, thinking) ==
    msgContent("thinking", <<>>, signature, thinking, NoId, "", <<>>, NoId, <<>>)

newMsgToolUse(id, name, args) ==
    msgContent("tool_use", <<>>, <<>>, <<>>, id, name, args, NoId, <<>>)

newMsgToolResult(toolUseID, output) ==
    msgContent("tool_result", <<>>, <<>>, <<>>, NoId, "", <<>>, toolUseID, output)

\* fromCoreMsgs before its loop: no system prompt, no message, no last role
FlatStart == [sysPrompt |-> <<>>, r |-> <<>>, lastRole |-> "", panicked |-> FALSE]

AppendContentNeverCoalesces(st, role, content) ==
    [st EXCEPT !.r = Append(@, [Role |-> role, Content |-> <<content>>]),
               !.lastRole = role]

\* a content block of role: appended to the last message when that has the
\* role, else in a new message of the role
AppendContent(st, role, content) ==
    IF st.lastRole = role
    THEN [st EXCEPT !.r[Len(st.r)].Content = Append(@, content)]
    ELSE [st EXCEPT !.r = Append(@, [Role |-> role, Content |-> <<content>>]),
                    !.lastRole = role]

\* one turn of the loop of fromCoreMsgs
FlatStep(st, m) ==
    IF st.panicked THEN st
    ELSE CASE m.type = "reasoning" ->
                AppendContent(st, "assistant", newMsgReason(m.enc, m.text))
           [] m.type = "content" ->
                IF m.role = "system"
                THEN IF st.sysPrompt = <<>>
                     THEN [st EXCEPT !.sysPrompt = m.text]
                     ELSE \* panic("multiple system messages not allowed for anthropic")
                          [st EXCEPT !.panicked = TRUE]
                ELSE AppendContent(st, m.role, newMsgText(m.text))
           [] m.type = "tool_call" ->
                AppendContent(st, "assistant", newMsgToolUse(m.id, m.name, m.text))
           [] m.type = "tool_result" ->
                AppendContent(st, "user", newMsgToolResult(m.id, m.text))
           [] OTHER ->
                \* panic: unknown message type
                [st EXCEPT !.panicked = TRUE]

RECURSIVE FlatLoop(_, _)
FlatLoop(st, ms) == IF ms = <<>> THEN st ELSE FlatLoop(FlatStep(st, Head(ms)), Tail(ms))

\* what fromCoreMsgs returns, or that it panicked. With shouldCache the last
\* content block gets the cache control: indexing the last message panics when
\* there is none, and a last block of reasoning panics.
fromCoreMsgs(shouldCache, ms) ==
    LET st == FlatLoop(FlatStart, ms)
        flat == [sysPrompt |-> st.sysPrompt, r |-> st.r, panicked |-> st.panicked]
        last == st.r[Len(st.r)]
    IN IF st.panicked \/ ~shouldCache THEN flat
       ELSE IF st.r = <<>> THEN [flat EXCEPT !.panicked = TRUE]
       ELSE IF last.Content[Len(last.Content)].Type = "thinking"
       THEN [flat EXCEPT !.panicked = TRUE]
       ELSE [flat EXCEPT !.r[Len(st.r)].Content[Len(last.Content)].CacheCtrl = "ephemeral"]

\* newToolCfg: disable_parallel_tool_use is set unless the choice is "none"
newToolCfg(toolChoice, disableParallel) ==
    [type |-> toolChoice,
     disable_parallel_tool_use |-> IF toolChoice # "none" THEN <<disableParallel>> ELSE <<>>]

ToolCfgWhateverTools(tools, DisableTools) ==
    IF DisableTools THEN <<newToolCfg("none", FALSE)>> ELSE <<newToolCfg("auto", FALSE)>>

\* payload.ToolCfg of OpenStream: nil (here <<>>, omitted from the JSON as
\* tool_choice is omitempty) unless there are tools
ToolCfg(tools, DisableTools) ==
    IF Len(tools) > 0
    THEN IF DisableTools THEN <<newToolCfg("none", FALSE)>> ELSE <<newToolCfg("auto", FALSE)>>
    ELSE <<>>

\* the messages a history is made of: constructed by NewMsgContent (a system
\* message may have an empty text), NewMsgReasoning, NewMsgToolCall and
\* NewMsgToolResult
HistoryMsgs ==
    {NewMsgContent("system", <<"sys">>), NewMsgContent("system", <<>>),
     NewMsgContent("user", <<"hi">>), NewMsgContent("assistant", <<"a">>),
     NewMsgReasoning(<<"sig">>, <<"think">>),
     NewMsgToolCall(CallId(0, 1), "read", <<"{", "}">>),
     NewMsgToolResult(CallId(0, 1), <<"ok">>)}

Histories == UNION {[1..n -> HistoryMsgs] : n \in 0..MaxHistory}

\* the request body OpenStream marshals, or that building it panicked
RequestBody(shouldCache, messages, tools, DisableTools) ==
    LET flat == fromCoreMsgs(shouldCache, messages) IN
    [panicked |-> flat.panicked,
     system |-> IF flat.panicked THEN <<>> ELSE flat.sysPrompt,
     messages |-> IF flat.panicked THEN <<>> ELSE flat.r,
     tool_choice |-> IF flat.panicked THEN <<>> ELSE ToolCfg(tools, DisableTools)]

NoRequestBody == [panicked |-> FALSE, system |-> <<>>, messages |-> <<>>, tool_choice |-> <<>>]

InitRequest ==
    /\ InitBase
    /\ OthersUnused({"request"})
    /\ \E shouldCache \in BOOLEAN, messages \in Histories, tools \in {<<>>, <<"read">>},
          DisableTools \in BOOLEAN :
        request = [shouldCache |-> shouldCache, messages |-> messages, tools |-> tools,
                   DisableTools |-> DisableTools, built |-> 0,
                   payload |-> NoRequestBody, again |-> NoRequestBody]

\* OpenStream builds its request body from the messages, the tools and cfg
OpenStreamBuilds ==
    /\ request.built = 0
    /\ request' = [request EXCEPT
                      !.built = 1,
                      !.payload = RequestBody(request.shouldCache, request.messages,
                                           request.tools, request.DisableTools)]
    /\ UNCHANGED <<baseVars, agent, cachedMsg, costed, tui, callers>>

\* OpenStream is called again with the same messages, tools and cfg
OpenStreamBuildsAgain ==
    /\ request.built = 1
    /\ request' = [request EXCEPT
                      !.built = 2,
                      !.again = RequestBody(request.shouldCache, request.messages,
                                         request.tools, request.DisableTools)]
    /\ UNCHANGED <<baseVars, agent, cachedMsg, costed, tui, callers>>

NextRequest == OpenStreamBuilds \/ OpenStreamBuildsAgain

SpecRequest == InitRequest /\ [][NextRequest]_vars

\* ------------------------------------------------------------------------
\* NewAgent and ToolRegistry.Register
\* ------------------------------------------------------------------------

\* how many tools NewAgent is given at most
MaxTools == 3

ToolNames == {"read", "list", "grep"}

\* The tool lists NewAgent is given: the tool at position i has the handler i
\* and a spec of its name, described by i; a name may occur more than once.
ToolLists ==
    UNION {{[i \in 1..n |-> [Handler |-> i, Spec |-> [Name |-> names[i], Desc |-> i]]] :
                names \in [1..n -> ToolNames]} : n \in 0..MaxTools}

\* NewToolRegistry(): an empty map
NewToolRegistry == [name \in {} |-> 0]

RegisterOverwrites(m, name, h) ==
    [m |-> [n \in DOMAIN m \cup {name} |-> IF n = name THEN h ELSE m[n]],
     panicked |-> FALSE]

\* ToolRegistry.Register: the map afterwards, or the panic for a name that is
\* registered
Register(m, name, h) ==
    IF name \in DOMAIN m
    THEN [m |-> m, panicked |-> TRUE]
    ELSE [m |-> [n \in DOMAIN m \cup {name} |-> IF n = name THEN h ELSE m[n]],
          panicked |-> FALSE]

\* NewAgent before its loop: the registry (made when there are tools; a nil
\* map otherwise, which has no entry either) and no specs
InitAgent ==
    /\ InitBase
    /\ OthersUnused({"agent"})
    /\ \E tools \in ToolLists :
        agent = [tools |-> tools, i |-> 1, m |-> NewToolRegistry, toolSpecs |-> <<>>,
                 panicked |-> FALSE]

\* one turn of NewAgent's loop: register the tool's handler under the name of
\* its spec, append its spec
NewAgentRegisters ==
    /\ ~agent.panicked /\ agent.i <= Len(agent.tools)
    /\ LET tool == agent.tools[agent.i]
           r == Register(agent.m, tool.Spec.Name, tool.Handler)
       IN agent' = IF r.panicked
                   THEN [agent EXCEPT !.panicked = TRUE, !.m = r.m]
                   ELSE [agent EXCEPT !.m = r.m, !.i = @ + 1,
                                      !.toolSpecs = Append(@, tool.Spec)]
    /\ UNCHANGED <<baseVars, request, cachedMsg, costed, tui, callers>>

\* NewAgent returns the agent
NewAgentReturns ==
    /\ ~agent.panicked /\ agent.i = Len(agent.tools) + 1
    /\ agent' = [agent EXCEPT !.i = @ + 1]
    /\ UNCHANGED <<baseVars, request, cachedMsg, costed, tui, callers>>

NextAgent == NewAgentRegisters \/ NewAgentReturns

SpecAgent == InitAgent /\ [][NextAgent]_vars

\* ------------------------------------------------------------------------
\* core.Msg and its CachedTransform
\*
\* cachedMsg is one *core.Msg: msg are its Type and the fields of its member,
\* CachedTransform the bytes of that field (no byte when it is nil).

\* how many pieces a text field of the message has at most
MaxText == 2

Deltas == {<<"a">>, <<"b">>}

\* the messages the constructors make
NewMsgs ==
    {NewMsgReasoning(<<>>, <<>>), NewMsgContent("assistant", <<>>),
     NewMsgContent("user", <<"a">>),
     NewMsgToolCall(CallId(0, 1), "read", <<>>),
     NewMsgToolResult(CallId(0, 1), <<>>)}

\* the bytes a transformation of the message would keep in CachedTransform
Transformed(msg) == <<"block">> \o msg.enc \o msg.text

\* json.Marshal of the Msg with its CachedTransform: a nil json.RawMessage is
\* written as null, any other as its bytes
MarshalCached(m) ==
    [Marshal(m.msg) EXCEPT
        !.CachedTransform = IF m.CachedTransform = <<>> THEN <<"null">>
                            ELSE m.CachedTransform]

\* json.Unmarshal into a new Msg: json.RawMessage takes the bytes of the value,
\* those of null too
UnmarshalCached(payload) ==
    [msg |-> Unmarshal(payload), CachedTransform |-> payload.CachedTransform]

InitMsg ==
    /\ InitBase
    /\ OthersUnused({"cachedMsg"})
    /\ \E msg \in NewMsgs : cachedMsg = [msg |-> msg, CachedTransform |-> <<>>]

\* reasoning.Text += delta, content.Text += delta, toolCall.Arguments += delta
\* through the pointer As... returns
MsgAppendsText ==
    /\ cachedMsg.msg.type \in {"reasoning", "content", "tool_call"}
    /\ Len(cachedMsg.msg.text) < MaxText
    /\ \E delta \in Deltas :
        cachedMsg' = [cachedMsg EXCEPT !.msg.text = @ \o delta]
    /\ UNCHANGED <<baseVars, request, agent, costed, tui, callers>>

\* reasoning.Encrypted += delta
MsgAppendsEncrypted ==
    /\ cachedMsg.msg.type = "reasoning"
    /\ Len(cachedMsg.msg.enc) < MaxText
    /\ \E delta \in Deltas :
        cachedMsg' = [cachedMsg EXCEPT !.msg.enc = @ \o delta]
    /\ UNCHANGED <<baseVars, request, agent, costed, tui, callers>>

\* toolResult.Result = result
MsgSetsResult ==
    /\ cachedMsg.msg.type = "tool_result"
    /\ \E result \in Deltas \cup {<<"a", "b">>} :
        /\ result # cachedMsg.msg.text
        /\ cachedMsg' = [cachedMsg EXCEPT !.msg.text = result]
    /\ UNCHANGED <<baseVars, request, agent, costed, tui, callers>>

\* a transformation keeps its result in the exported field CachedTransform
MsgTransformed ==
    /\ cachedMsg' = [cachedMsg EXCEPT !.CachedTransform = Transformed(cachedMsg.msg)]
    /\ UNCHANGED <<baseVars, request, agent, costed, tui, callers>>

\* m.ResetCache()
ResetCache ==
    /\ cachedMsg' = [cachedMsg EXCEPT !.CachedTransform = <<>>]
    /\ UNCHANGED <<baseVars, request, agent, costed, tui, callers>>

\* the message is written to the store and read back
MsgStoredAndLoaded ==
    /\ cachedMsg' = UnmarshalCached(MarshalCached(cachedMsg))
    /\ UNCHANGED <<baseVars, request, agent, costed, tui, callers>>

NextMsg ==
    \/ MsgAppendsText
    \/ MsgAppendsEncrypted
    \/ MsgSetsResult
    \/ MsgTransformed
    \/ ResetCache
    \/ MsgStoredAndLoaded

SpecMsg == InitMsg /\ [][NextMsg]_vars

\* ------------------------------------------------------------------------
\* The cost of a response of adapter A
\*
\* costed is one call of costFromUsage: the model of the stream, the usage
\* the response.completed event reports, and what the call came to.

\* the largest of the small token counts a usage reports
MaxCount == 2

\* a token count of the size a long conversation has
ManyTokens == 1000

TokenCounts == 0..MaxCount \cup {ManyTokens}

\* the models with an entry in modelCosts, and one without
ModelIDs == {"gpt-4.1", "gpt-5-nano", "gpt-5-mini", "gpt-5-pro", "gpt-5.1", "gpt-5.2",
             "gpt-5.2-pro"}

UnknownModel == "gpt-x"

\* modelCosts: what a token costs, in 10^-9 USD
modelCosts ==
    [model \in ModelIDs |->
        CASE model = "gpt-4.1" ->
                [InputTokens |-> 2000, CachedTokens |-> 500, OutputTokens |-> 8000]
          [] model = "gpt-5-nano" ->
                [InputTokens |-> 50, CachedTokens |-> 5, OutputTokens |-> 400]
          [] model = "gpt-5-mini" ->
                [InputTokens |-> 250, CachedTokens |-> 25, OutputTokens |-> 2000]
          [] model = "gpt-5-pro" ->
                [InputTokens |-> 15000, CachedTokens |-> 15000, OutputTokens |-> 120000]
          [] model = "gpt-5.1" ->
                [InputTokens |-> 1250, CachedTokens |-> 125, OutputTokens |-> 10000]
          [] model = "gpt-5.2" ->
                [InputTokens |-> 1750, CachedTokens |-> 175, OutputTokens |-> 14000]
          [] OTHER ->
                [InputTokens |-> 21000, CachedTokens |-> 21000, OutputTokens |-> 168000]]

\* costFromUsage with the cached tokens paid twice: as input and as cached
costFromUsageCountsCachedTwice(model, u) ==
    IF model \notin DOMAIN modelCosts
    THEN [cost |-> 0, panicked |-> FALSE, logged |-> TRUE]
    ELSE LET costs == modelCosts[model]
         IN [cost |-> costs.InputTokens * u.Input
                        + costs.CachedTokens * u.Cached
                        + costs.OutputTokens * u.Output,
             panicked |-> FALSE, logged |-> FALSE]

\* costFromUsage(model, u): 0 and a log line for a model without entry; a
\* panic when more tokens are cached than were input
costFromUsage(model, u) ==
    IF model \notin DOMAIN modelCosts
    THEN [cost |-> 0, panicked |-> FALSE, logged |-> TRUE]
    ELSE LET costs == modelCosts[model]
             regularInput == u.Input - u.Cached
         IN IF regularInput < 0
            THEN [cost |-> 0, panicked |-> TRUE, logged |-> FALSE]
            ELSE [cost |-> costs.InputTokens * regularInput
                             + costs.CachedTokens * u.Cached
                             + costs.OutputTokens * u.Output,
                  panicked |-> FALSE, logged |-> FALSE]

\* the usage of the response that has not come yet
NoCost == [cost |-> 0, panicked |-> FALSE, logged |-> FALSE]

InitCost ==
    /\ InitBase
    /\ OthersUnused({"costed"})
    /\ \E model \in ModelIDs \cup {UnknownModel} :
        costed = [model |-> model, usage |-> [Input |-> 0, Cached |-> 0, Output |-> 0],
                  completed |-> FALSE, Total |-> 0, r |-> NoCost]

\* response.completed: the usage of the public response, its Total and Cost
RespCompleted ==
    /\ ~costed.completed
    /\ \E input \in TokenCounts : \E cached \in TokenCounts : \E output \in TokenCounts :
        LET u == [Input |-> input, Cached |-> cached, Output |-> output]
        IN costed' = [costed EXCEPT !.usage = u, !.completed = TRUE,
                                    !.Total = input + output,
                                    !.r = costFromUsage(costed.model, u)]
    /\ UNCHANGED <<baseVars, request, agent, cachedMsg, tui, callers>>

NextCost == RespCompleted

SpecCost == InitCost /\ [][NextCost]_vars

\* ------------------------------------------------------------------------
\* The terminal chat: TUIModel
\*
\* tui is the TUIModel with what Update returned last: messages are the kinds
\* of the chat messages, input the runes of the text area, streamCh whether
\* the channel is nil, live the streaming requests whose context is not
\* cancelled, started the calls of runStreamingRequest, waiting whether a
\* command of waitForStream is out, cmd the command returned last and op the
\* handler that returned it.

\* how many chat messages the history holds at most
MaxChat == 3

\* how many runes the text area holds at most
MaxInput == 2

Runes == {" ", "a", ":", "q"}

IsSpace(r) == r = " " \/ r = "\n"

RECURSIVE TrimLeft(_)
TrimLeft(in) ==
    IF in # <<>> /\ IsSpace(Head(in)) THEN TrimLeft(Tail(in)) ELSE in

RECURSIVE TrimRight(_)
TrimRight(in) ==
    IF in # <<>> /\ IsSpace(in[Len(in)]) THEN TrimRight(SubSeq(in, 1, Len(in) - 1)) ELSE in

\* strings.TrimSpace
TrimSpace(in) == TrimRight(TrimLeft(in))

\* the inputs that quit (of the three, the one the text area can hold here)
QuitInputs == {<<":", "q">>}

\* m.stopStream(): cancel the context of the stream if there is one, forget
\* the channel
stopStream(m) ==
    [m EXCEPT !.live = IF m.cancelCurrStream THEN @ - 1 ELSE @,
              !.cancelCurrStream = FALSE,
              !.streamCh = "nil"]

\* m.waitForStream(): nil when there is no channel
waitForStream(m) == IF m.streamCh = "nil" THEN "nil" ELSE "waitForStream"

\* what submitInput does with an input that is neither empty nor a quit
submitInputStarts(m) ==
    LET started == [m EXCEPT !.messages = Append(@, "user"),
                             !.input = <<>>,
                             !.partialResponse = FALSE,
                             !.generating = TRUE,
                             !.errMsg = "",
                             !.cancelCurrStream = TRUE,
                             !.live = @ + 1,
                             !.started = @ + 1,
                             !.streamCh = "open"]
    IN [started EXCEPT !.cmd = waitForStream(started), !.waiting = TRUE]

\* submitInput without its first test
submitInputWhileGenerating(m) ==
    LET input == TrimSpace(m.input)
    IN IF input = <<>> THEN [m EXCEPT !.cmd = "nil"]
       ELSE IF input \in QuitInputs THEN [stopStream(m) EXCEPT !.cmd = "Quit", !.quit = TRUE]
       ELSE submitInputStarts(m)

\* m.submitInput()
submitInput(m) ==
    IF m.generating THEN [m EXCEPT !.cmd = "nil"]
    ELSE LET input == TrimSpace(m.input)
         IN IF input = <<>> THEN [m EXCEPT !.cmd = "nil"]
            ELSE IF input \in QuitInputs
            THEN [stopStream(m) EXCEPT !.cmd = "Quit", !.quit = TRUE]
            ELSE submitInputStarts(m)

\* NewTUIModel
NewTUIModel ==
    [generating |-> FALSE, messages |-> <<>>, input |-> <<>>, partialResponse |-> FALSE,
     errMsg |-> "", streamCh |-> "nil", cancelCurrStream |-> FALSE, live |-> 0,
     started |-> 0, waiting |-> FALSE, cmd |-> "Blink", quit |-> FALSE, op |-> "Init"]

InitTUI ==
    /\ InitBase
    /\ OthersUnused({"tui"})
    /\ tui = NewTUIModel

\* a key the text area takes: a rune, or alt+enter for a new line
KeyRunes ==
    /\ ~tui.quit /\ Len(tui.input) < MaxInput
    /\ \E r \in Runes \cup {"\n"} :
        tui' = [tui EXCEPT !.input = Append(@, r), !.cmd = "nil",
                           !.op = IF r = "\n" THEN "altEnter" ELSE "textarea"]
    /\ UNCHANGED <<baseVars, request, agent, cachedMsg, costed, callers>>

\* enter: submitInput
KeyEnter ==
    /\ ~tui.quit
    /\ tui.generating \/ Len(tui.messages) < MaxChat
    /\ tui' = [submitInput(tui) EXCEPT !.op = "submitInput"]
    /\ UNCHANGED <<baseVars, request, agent, cachedMsg, costed, callers>>

\* ctrl+c
KeyCtrlC ==
    /\ ~tui.quit
    /\ tui' = [stopStream(tui) EXCEPT !.cmd = "Quit", !.quit = TRUE, !.op = "ctrlC"]
    /\ UNCHANGED <<baseVars, request, agent, cachedMsg, costed, callers>>

\* botDeltaMsg
BotDelta ==
    /\ ~tui.quit /\ tui.waiting
    /\ LET m == [tui EXCEPT !.partialResponse = TRUE]
       IN tui' = [m EXCEPT !.cmd = waitForStream(m), !.waiting = waitForStream(m) # "nil",
                           !.op = "botDeltaMsg"]
    /\ UNCHANGED <<baseVars, request, agent, cachedMsg, costed, callers>>

\* botDoneMsg
BotDone ==
    /\ ~tui.quit /\ tui.waiting
    /\ Len(tui.messages) < MaxChat
    /\ LET m == [tui EXCEPT !.generating = FALSE, !.errMsg = "",
                            !.messages = Append(@, "assistant"),
                            !.partialResponse = FALSE]
       IN tui' = [stopStream(m) EXCEPT !.cmd = "nil", !.waiting = FALSE, !.op = "botDoneMsg"]
    /\ UNCHANGED <<baseVars, request, agent, cachedMsg, costed, callers>>

\* botErrorMsg
BotError ==
    /\ ~tui.quit /\ tui.waiting
    /\ LET m == [tui EXCEPT !.generating = FALSE, !.errMsg = "err",
                            !.partialResponse = FALSE]
       IN tui' = [stopStream(m) EXCEPT !.cmd = "nil", !.waiting = FALSE, !.op = "botErrorMsg"]
    /\ UNCHANGED <<baseVars, request, agent, cachedMsg, costed, callers>>

\* streamClosedMsg: the channel was closed with nothing left in it
StreamClosed ==
    /\ ~tui.quit /\ tui.waiting
    /\ tui' = [stopStream(tui) EXCEPT !.cmd = "nil", !.waiting = FALSE,
                                      !.op = "streamClosedMsg"]
    /\ UNCHANGED <<baseVars, request, agent, cachedMsg, costed, callers>>

\* toolCallMsg, reasoningMsg
ToolOrReasoning ==
    /\ ~tui.quit /\ tui.waiting
    /\ Len(tui.messages) < MaxChat
    /\ \E kind \in {"tool", "reasoning"} :
        LET m == [tui EXCEPT !.messages = Append(@, kind)]
        IN tui' = [m EXCEPT !.cmd = waitForStream(m), !.waiting = waitForStream(m) # "nil",
                            !.op = kind]
    /\ UNCHANGED <<baseVars, request, agent, cachedMsg, costed, callers>>

NextTUI ==
    \/ KeyRunes
    \/ KeyEnter
    \/ KeyCtrlC
    \/ BotDelta
    \/ BotDone
    \/ BotError
    \/ StreamClosed
    \/ ToolOrReasoning

SpecTUI == InitTUI /\ [][NextTUI]_vars

\* ------------------------------------------------------------------------
\* Properties
\* ------------------------------------------------------------------------

Count(seq, Test(_)) == Cardinality({i \in 1..Len(seq) : Test(seq[i])})

IsToolResult(m) == m.type = "tool_result"

IsToolCallEvent(e) == e.type = "EvToolCall"

IsReasoning(m) == m.type = "reasoning"

IsRespEvent(e) == e.type = "EvResp"

IsErrorEvent(e) == e.type = "EvError"

\* the messages added to the working slice since the round's stream was opened
RoundMsgs == SubSeq(msgs, roundBase + 1, Len(msgs))

\* the round of the last stream opened has completed: Run is at the head of
\* the next round, or past the loop without an error from the loop
RoundCompleted ==
    /\ opened # <<>>
    /\ \/ pc = "round" /\ round = Len(opened)
       \/ pc = "persist"
       \/ pc = "returned" /\ runErr \in {"nil", "error extending store"}

\* C1: in every round of Agent.Run that completes, the number of ToolResult
\* messages appended to the working slice equals the number of ToolCall events
\* the stream sent in that round.
C1_ToolResultsMatchToolCalls ==
    RoundCompleted => Count(RoundMsgs, IsToolResult) = Count(sent, IsToolCallEvent)

C1_Witness ==
    /\ pc = "round" /\ round = 1
    /\ Count(sent, IsToolCallEvent) = MaxCalls
    /\ Count(RoundMsgs, IsToolResult) = MaxCalls

\* C2: no message Run passed to Store.Extend is a Reasoning message, and a
\* session whose history was written only by Run holds no Reasoning message,
\* whatever reasoning the model emitted.
C2_NoReasoningStored ==
    /\ Count(storeMsgs, IsReasoning) = 0
    /\ \A i \in 1..Len(extended) : Count(extended[i].msgs, IsReasoning) = 0

C2_Witness ==
    /\ pc = "returned" /\ runErr = "nil"
    /\ Count(msgs, IsReasoning) >= 2
    /\ Len(storeMsgs) > Len(storeAtStart[1])

\* C3: if OpenStream returns an error or the stream emits an Error event in
\* any round, Run returns an error and never calls Store.Extend: the session's
\* messages and usage are what they were before the call.
C3_StreamErrorAborts ==
    /\ (Count(sent, IsErrorEvent) > 0 /\ pc # "events")
        => (pc = "returned" /\ runErr \notin {"", "nil"})
    /\ (pc = "returned" /\ (Count(sent, IsErrorEvent) > 0
                            \/ runErr = "error opening stream"))
        => /\ runErr \notin {"", "nil"}
           /\ extended = <<>>
           /\ <<storeMsgs, storeUsage>> = storeAtStart

C3_Witness ==
    /\ pc = "returned" /\ runErr = "error during stream"
    /\ ~ctxDone
    /\ usage > 0 /\ Len(opened) >= 2
    /\ storeAtStart[1] # <<>>

\* every stream Run opened was read to its end: Run holds the FinalResponse
\* of the last one and has added the usage of each (1 per response)
StreamCompleted == resp # ZeroResponse /\ usage = Len(opened)

\* C4 (as claimed): if the caller's context is cancelled while Run executes,
\* Run returns an error and Store.Extend is not called. Stated for the runs
\* whose streams all delivered their FinalResponse, so that no failure of a
\* stream is involved.
C4_CancelPersistsNothing ==
    (pc = "returned" /\ ctxDone /\ StreamCompleted) => (runErr # "nil" /\ extended = <<>>)

\* the text Run renders a failed call of tool name into
ErrorText(name) ==
    <<"error calling tool", name,
      IF name \in registry THEN "error calling handler" ELSE "tool not found">>

Failing(name) == name \notin registry \/ name = "broken"

\* C5: a failing tool call never aborts Run: a ToolResult with the call's id
\* and the error as text is appended, Run returns no error for it (an error
\* during the stream needs an Error event, a context error a cancellation),
\* and the round completes.
C5_ToolErrorIsResult ==
    /\ (RoundCompleted /\ pc # "returned") =>
          \A w \in 1..Len(workers) :
              Failing(workers[w].name) =>
                  \E i \in 1..Len(RoundMsgs) :
                      /\ RoundMsgs[i].type = "tool_result"
                      /\ RoundMsgs[i].id = workers[w].id
                      /\ RoundMsgs[i].text = ErrorText(workers[w].name)
    /\ (pc = "returned" /\ runErr = "error during stream") => Count(sent, IsErrorEvent) > 0
    /\ (pc = "returned" /\ runErr = "context error") => ctxDone

C5_Witness ==
    /\ pc = "round" /\ round = 1
    /\ \E w \in 1..Len(workers) : workers[w].name = "bogus"
    /\ \E w \in 1..Len(workers) : workers[w].name = "broken"
    /\ Count(RoundMsgs, IsToolResult) = Len(workers)

\* C6: Run opens at most agentRoundsMax streams, and when every stream closes
\* its channel and every tool handler returns, Run terminates (it returns, or
\* the process dies) whatever the model requests in each round.
C6_RunTerminates ==
    /\ [](Len(opened) <= agentRoundsMax)
    /\ <>(pc = "returned" \/ crashed)

C6_Witness ==
    /\ pc = "returned"
    /\ Len(opened) = agentRoundsMax
    /\ toolCallCount > 0

IsSteer(m) == m = NewMsgContent("system", toolCallLimitReachedPrompt)

\* C7 (as claimed, its first part): when the round cap is reached (the model
\* asked for tools in every earlier round), the final round emits no tool
\* calls, so that the run does not end on the result of a tool. Stated for
\* the runs that return nil after streams that all delivered their
\* FinalResponse.
C7_FinalRoundAnswers ==
    (pc = "returned" /\ runErr = "nil" /\ Len(opened) = agentRoundsMax /\ StreamCompleted) =>
        /\ Count(sent, IsToolCallEvent) = 0
        /\ msgs[Len(msgs)].type # "tool_result"

\* C8 (as claimed): the steering message of the final round is not among the
\* messages stored for the session after Run returns. Stated for the runs
\* that return nil after streams that all delivered their FinalResponse.
C8_SteerNotStored ==
    (pc = "returned" /\ runErr = "nil" /\ StreamCompleted) => Count(storeMsgs, IsSteer) = 0

\* C9: whenever Consume has returned, the output channel and the HTTP body are
\* closed, for both adapters, and nothing is sent once the channel is closed.
C9_ConsumeCloses ==
    /\ cpc = "returned" => (eventsClosed /\ bodyClosed)
    /\ eventsClosed => (cpc = "returned" /\ pend = NoPend)

C9_Witness ==
    /\ cpc = "returned" /\ eventsClosed /\ bodyClosed
    /\ ctxChildDone
    /\ Count(sent, IsErrorEvent) > 0
    /\ provider = "anthropic"

\* C10: Consume emits at most one FinalResponse event per stream, and nothing
\* follows it: it is the last event written, and Consume has returned.
C10_FinalResponseLast ==
    /\ Count(sent, IsRespEvent) <= 1
    /\ \A i \in 1..Len(sent) : sent[i].type = "EvResp" => i = Len(sent)
    /\ Count(sent, IsRespEvent) = 1 => (cpc = "returned" /\ eventsClosed)

C10_Witness ==
    /\ Count(sent, IsRespEvent) = 1
    /\ Len(sent) >= 4
    /\ cpc = "returned"
    /\ provider = "openai"

\* C11 (as claimed): when the body ends before the completion event and the
\* context is not cancelled, Consume emits an Error event before it closes the
\* channel and returns: a stream that returned without a FinalResponse has
\* sent an Error event.
C11_EofEmitsError ==
    (cpc = "returned" /\ ~ctxChildDone /\ Count(sent, IsRespEvent) = 0)
        => Count(sent, IsErrorEvent) >= 1

\* C12 (as claimed): a failed stream carries exactly one Error event: no
\* event follows an Error event.
C12_SingleErrorEvent ==
    \A i \in 1..Len(sent) : sent[i].type = "EvError" => i = Len(sent)

\* the calls of the ToolCall events among the events es, in order
CallsOfEvents(es) ==
    LET tc == SelectSeq(es, IsToolCallEvent) IN [i \in 1..Len(tc) |-> tc[i].call]

IsToolCallMsg(m) == m.type = "tool_call"

\* the id, name and arguments of the ToolCall messages of a response, in order
CallsOfResponse(r) ==
    LET tc == SelectSeq(r.msgs, IsToolCallMsg)
    IN [i \in 1..Len(tc) |-> [id |-> tc[i].id, name |-> tc[i].name, args |-> tc[i].text]]

\* C13 (as claimed): adapter B emits a ToolCall event only at the
\* content_block_stop of a tool_use block, with the id, the name and the
\* complete arguments of the corresponding ToolCall message of the
\* FinalResponse: when the FinalResponse is sent, the ToolCall events sent
\* before it are, one for one and in order, the ToolCall messages it carries.
C13_ToolCallAtBlockStop ==
    provider = "anthropic" =>
        \A i \in 1..Len(sent) :
            sent[i].type = "EvResp"
                => CallsOfEvents(Prefix(sent, i)) = CallsOfResponse(sent[i].resp)

\* what Messages and Usage of the store under test return (the SQLiteStore:
\* when the database can be read)
StoreMessages(key) ==
    IF storeKind = "EphemeralStore" THEN EphemeralStoreMessages(ephemeral, key)
    ELSE SQLiteStoreMessages(key)

StoreUsage(key) ==
    IF storeKind = "EphemeralStore" THEN EphemeralStoreUsage(ephemeral, key)
    ELSE SQLiteStoreUsage(key)

\* the counters of a usage other than Total
Counters(u) == <<u.Input, u.Cached, u.Output, u.Reasoning, u.Cost>>

RECURSIVE SumCounters(_)
\* the sums, counter by counter, of the usages us
SumCounters(us) ==
    IF us = <<>> THEN Counters(ZeroUsage)
    ELSE [i \in 1..Len(Counters(ZeroUsage)) |->
              SumCounters(Tail(us))[i] + Counters(Head(us))[i]]

\* C14: in the ephemeral store, Messages(k) is the concatenation, in the order
\* of the calls, of the lists Extend was given for k.
C14_EphemeralConcatenates ==
    storeKind = "EphemeralStore" =>
        /\ \A key \in SessionIDs : EphemeralStoreMessages(ephemeral, key) = committed[key].msgs
        /\ ret.op = "Messages" => ret.msgs = committed[ret.key].msgs

\* two different lists were extended under one key and Messages returned both
C14_Witness ==
    /\ storeKind = "EphemeralStore"
    /\ ret.op = "Messages"
    /\ Len(committed[ret.key].usages) = MaxExtends
    /\ \E ms \in MsgLists \ {<<>>} : \E other \in MsgLists \ {<<>>, ms} :
            ret.msgs = ms \o other

\* C15 (as claimed): in the durable store, once Extend(s, msgs, u) has
\* returned nil, Messages(s) returns every message committed for s so far,
\* those of this call last.
C15_ExtendThenMessages ==
    (storeKind = "SQLiteStore" /\ ret.op = "Extend" /\ ret.err = "nil")
        => SQLiteStoreMessages(ret.key) = committed[ret.key].msgs

C17_TotalIsSum ==
    (storeKind = "SQLiteStore" /\ ret.op = "Usage")
        => ret.usage.Total = ret.usage.Input + ret.usage.Cached + ret.usage.Output

ExtendStep(key) ==
    /\ ret'.op = "Extend" /\ ret'.key = key
    /\ tx' # tx \/ handle'.extends # handle.extends

\* C19: for a session never extended Messages returns the empty list and
\* Usage the zero usage, and no step of Extend for one session changes what
\* Messages and Usage return for another; in both stores.
C19_SessionIsolation ==
    /\ [](\A key \in SessionIDs :
            committed[key].usages = <<>>
                => StoreMessages(key) = <<>> /\ StoreUsage(key) = ZeroUsage)
    /\ [][\A key \in SessionIDs : \A other \in SessionIDs \ {key} :
            ExtendStep(key)
                => /\ StoreMessages(other)' = StoreMessages(other)
                   /\ StoreUsage(other)' = StoreUsage(other)]_vars

\* the durable store holds messages of one session, and Messages returned the
\* empty list for the other, never extended
C19_Witness ==
    /\ storeKind = "SQLiteStore"
    /\ ret.op = "Messages" /\ ret.err = "nil" /\ ret.msgs = <<>>
    /\ committed[ret.key].usages = <<>>
    /\ \E other \in SessionIDs \ {ret.key} : committed[other].msgs # <<>>

\* C20: while the durable store's Extend runs, and when it has returned an
\* error (from begin, prepare, an insert, the upsert or the commit), the
\* database and the cache are what they were when it was called: the cache
\* changes only with the return of nil after the commit.
C20_FailedExtendLeavesNoTrace ==
    storeKind = "SQLiteStore" =>
        /\ tx # NoTx => db = tx.dbAtCall /\ ephemeral = tx.ephAtCall
        /\ (ret.op = "Extend" /\ ret.err \notin {"", "nil"})
            => tx = NoTx /\ db = ret.dbAtCall /\ ephemeral = ret.ephAtCall

\* the commit of a call that had inserted messages failed, on a database that
\* held messages
C20_Witness ==
    /\ storeKind = "SQLiteStore"
    /\ ret.op = "Extend" /\ ret.err = "failed to commit transaction"
    /\ ret.dbAtCall.messages # <<>>
    /\ db = ret.dbAtCall

\* C21: the durable store's cache holds messages and usage of a session
\* together or not at all. A call of Messages that loads puts both into the
\* cache; when loadMessages or loadUsage fails it leaves the cache as it was
\* and returns the empty list; a call of Usage never changes the cache.
C21_CacheNeverPartial ==
    /\ [](storeKind = "SQLiteStore" => DOMAIN ephemeral.m = DOMAIN ephemeral.u)
    /\ [][storeKind = "SQLiteStore" =>
            /\ (ret'.op = "Messages" /\ ret'.err # "nil")
                => ephemeral' = ephemeral /\ ret'.msgs = <<>>
            /\ (ret'.op = "Messages" /\ ret'.err = "nil" /\ ephemeral' # ephemeral)
                => /\ EphemeralStoreMessages(ephemeral, ret'.key) = <<>>
                   /\ EphemeralStoreMessages(ephemeral', ret'.key) = loadMessages(ret'.key)
                   /\ EphemeralStoreUsage(ephemeral', ret'.key)
                        = UsageInc(EphemeralStoreUsage(ephemeral, ret'.key),
                                   loadUsage(ret'.key))
            /\ ret'.op = "Usage" => ephemeral' = ephemeral]_vars

\* on a reopened handle the messages of a session were loaded, the load of
\* its usage failed, and nothing of the session is in the cache
C21_Witness ==
    /\ storeKind = "SQLiteStore"
    /\ ret.op = "Messages" /\ ret.err = "failed to load usage" /\ ret.msgs = <<>>
    /\ loadMessages(ret.key) # <<>>
    /\ ret.key \notin DOMAIN ephemeral.m \cup DOMAIN ephemeral.u

IsSystem(m) == m.type = "content" /\ m.role = "system"

IsNotSystem(m) == ~IsSystem(m)

\* the content block fromCoreMsgs makes of a message that is not a system
\* message
BlockOf(m) ==
    CASE m.type = "reasoning" -> newMsgReason(m.enc, m.text)
      [] m.type = "content" -> newMsgText(m.text)
      [] m.type = "tool_call" -> newMsgToolUse(m.id, m.name, m.text)
      [] OTHER -> newMsgToolResult(m.id, m.text)

RECURSIVE BlocksOf(_)
\* the content blocks of the flattened messages r, in order, without their
\* cache control
BlocksOf(r) ==
    IF r = <<>> THEN <<>>
    ELSE [i \in 1..Len(Head(r).Content) |-> [Head(r).Content[i] EXCEPT !.CacheCtrl = ""]]
            \o BlocksOf(Tail(r))

C23_SystemInTheMiddleFails ==
    (request.built > 0
        /\ \E i \in 2..Len(request.messages) :
                IsSystem(request.messages[i]) /\ request.messages[i].text # <<>>)
        => request.payload.panicked

\* C24: tool_choice is "auto" when there are tools and DisableTools is false,
\* "none" when there are tools and DisableTools is true, and omitted when
\* there are no tools.
C24_ToolChoice ==
    (request.built > 0 /\ ~request.payload.panicked) =>
        LET choice == request.payload.tool_choice IN
        /\ (request.tools # <<>> /\ ~request.DisableTools)
            => Len(choice) = 1 /\ choice[1].type = "auto"
        /\ (request.tools # <<>> /\ request.DisableTools)
            => Len(choice) = 1 /\ choice[1].type = "none"
        /\ request.tools = <<>> => choice = <<>>

\* a request was built with DisableTools and without tools
C24_Witness ==
    /\ request.built > 0 /\ ~request.payload.panicked
    /\ request.tools = <<>> /\ request.DisableTools
    /\ request.payload.messages # <<>>
    /\ request.payload.tool_choice = <<>>

\* a name occurs twice among the first n tools
HasDuplicate(tools, n) ==
    \E i \in 1..n : \E j \in (i + 1)..n : tools[i].Spec.Name = tools[j].Spec.Name

NewAgentReturned == ~agent.panicked /\ agent.i > Len(agent.tools) + 1

\* C25: Register panics for a name that is registered and leaves the first
\* handler in place: NewAgent panics at the first tool whose name an earlier
\* tool has, never returns for a list with a duplicate name, and for any other
\* list returns with the specs in the order given and every handler under its
\* name.
C25_DuplicateToolAborts ==
    /\ agent.panicked
        => /\ HasDuplicate(agent.tools, agent.i) /\ ~HasDuplicate(agent.tools, agent.i - 1)
           /\ \A j \in 1..(agent.i - 1) :
                agent.m[agent.tools[j].Spec.Name] = agent.tools[j].Handler
    /\ NewAgentReturned
        => /\ ~HasDuplicate(agent.tools, Len(agent.tools))
           /\ agent.toolSpecs = [j \in 1..Len(agent.tools) |-> agent.tools[j].Spec]
           /\ DOMAIN agent.m = {agent.tools[j].Spec.Name : j \in 1..Len(agent.tools)}
           /\ \A j \in 1..Len(agent.tools) :
                agent.m[agent.tools[j].Spec.Name] = agent.tools[j].Handler
    /\ agent.i > Len(agent.tools) => ~HasDuplicate(agent.tools, Len(agent.tools))

\* NewAgent panicked at the last of its tools, whose name the first tool has
C25_Witness ==
    /\ agent.panicked
    /\ agent.i = MaxTools
    /\ agent.tools[1].Spec.Name = agent.tools[MaxTools].Spec.Name
    /\ agent.m[agent.tools[1].Spec.Name] = agent.tools[1].Handler

PriceOf(model, u) ==
    LET costs == modelCosts[model]
    IN costs.InputTokens * u.Input + costs.OutputTokens * u.Output
         - (costs.InputTokens - costs.CachedTokens) * u.Cached

\* C27: for a model with rates, the cost of adapter A's response is the input
\* rate on the input tokens that were not cached, the cached rate on the
\* cached ones and the output rate on the output tokens; a usage with more
\* cached than input tokens panics and yields no cost.
C27_CostByRates ==
    (costed.completed /\ costed.model \in ModelIDs)
        => /\ costed.r.panicked <=> costed.usage.Cached > costed.usage.Input
           /\ ~costed.r.panicked => costed.r.cost = PriceOf(costed.model, costed.usage)
           /\ costed.r.panicked => costed.r.cost = 0

\* a response with cached tokens among its many input tokens, priced
C27_Witness ==
    /\ costed.completed /\ costed.model = "gpt-5.2" /\ ~costed.r.panicked
    /\ costed.usage = [Input |-> ManyTokens, Cached |-> MaxCount, Output |-> 1]
    /\ costed.r.cost = 1750 * (ManyTokens - MaxCount) + 175 * MaxCount + 14000

\* the model but for what Update returned and which handler ran
TUIState(m) == [m EXCEPT !.cmd = "", !.op = ""]

\* C28: submitInput while generating, or with an input that is empty once
\* trimmed, changes nothing of the model and returns no command; a streaming
\* request is started only when the model is not generating and has no
\* stream, and no two streams are live at a time.
C28_SubmitIsNoOp ==
    /\ [](tui.live <= 1 /\ (tui.streamCh # "nil" => tui.generating /\ tui.live = 1))
    /\ [][/\ (tui'.op = "submitInput" /\ tui' # tui
                /\ (tui.generating \/ TrimSpace(tui.input) = <<>>))
             => (TUIState(tui') = TUIState(tui) /\ tui'.cmd = "nil")
          /\ tui'.started # tui.started
             => (~tui.generating /\ tui.streamCh = "nil" /\ tui.live = 0
                   /\ tui'.op = "submitInput" /\ TrimSpace(tui.input) # <<>>)]_vars

\* enter was pressed with a text in the input while the second request of the
\* chat was generating: nothing was started
C28_Witness ==
    /\ tui.op = "submitInput" /\ tui.cmd = "nil"
    /\ tui.generating /\ tui.streamCh = "open"
    /\ TrimSpace(tui.input) = <<"a">> /\ tui.input # <<"a">>
    /\ tui.started = 2 /\ tui.messages = <<"user", "tool", "user">>

\* C29 (as claimed): the final-round policy is applied in round
\* agentRoundsMax - 1 and in no earlier round: every stream of an earlier
\* round is opened with DisableTools false and without a steering message
\* among its messages; the stream of the last round is opened, for provider A,
\* with exactly one steering message and DisableTools false, and for provider
\* B with DisableTools true and no steering message.
C29_FinalRoundPolicy ==
    \A i \in 1..Len(opened) :
        LET o == opened[i]
        IN /\ o.round = i - 1
           /\ o.round < agentRoundsMax - 1
                => (~o.disableTools /\ Count(o.msgs, IsSteer) = 0)
           /\ (o.round = agentRoundsMax - 1 /\ provider = "openai")
                => (~o.disableTools /\ Count(o.msgs, IsSteer) = 1)
           /\ (o.round = agentRoundsMax - 1 /\ provider = "anthropic")
                => (o.disableTools /\ Count(o.msgs, IsSteer) = 0)

RECURSIVE WithoutReasoning(_)
\* the messages of ms that are no Reasoning messages, in the order of ms
WithoutReasoning(ms) ==
    IF ms = <<>> THEN <<>>
    ELSE IF IsReasoning(Head(ms)) THEN WithoutReasoning(Tail(ms))
    ELSE <<Head(ms)>> \o WithoutReasoning(Tail(ms))

\* C30: after a Run that returned nil the session holds the messages it held
\* before the call, in place and once, followed by the messages of the run
\* that are no Reasoning messages in the order of the working slice: first the
\* system prompt if and only if the session was empty, then the user's input.
C30_StoredIsBeforeThenRun ==
    (pc = "returned" /\ runErr = "nil") =>
        LET before == storeAtStart[1]
            n == Len(before)
            added == SubSeq(storeMsgs, n + 1, Len(storeMsgs))
            first == IF n = 0 THEN <<NewMsgContent("system", sysPrompt)>> ELSE <<>>
        IN /\ Len(storeMsgs) >= n + Len(first) + 1
           /\ SubSeq(storeMsgs, 1, n) = before
           /\ SubSeq(msgs, 1, n) = before
           /\ added = WithoutReasoning(SubSeq(msgs, n + 1, Len(msgs)))
           /\ SubSeq(added, 1, Len(first)) = first
           /\ added[Len(first) + 1] = NewMsgContent("user", <<"input">>)
           /\ n > 0 => added[1] # NewMsgContent("system", sysPrompt)

\* a Run on a session with messages returned nil after a round with reasoning
\* and a tool call: the call and its result were stored after the input
C30_Witness ==
    /\ pc = "returned" /\ runErr = "nil"
    /\ storeAtStart[1] = EarlierSession
    /\ Count(msgs, IsReasoning) > 0
    /\ Len(storeMsgs) > Len(EarlierSession) + 2
    /\ storeMsgs[Len(EarlierSession) + 1] = NewMsgContent("user", <<"input">>)
    /\ Count(SubSeq(storeMsgs, Len(EarlierSession) + 1, Len(storeMsgs)), IsToolResult) > 0

\* the call-ids of the ToolResult messages of ms, in order
ResultIds(ms) ==
    LET results == SelectSeq(ms, IsToolResult)
    IN [i \in 1..Len(results) |-> results[i].id]

\* the call-ids of the ToolCall events of evs, in order
EventCallIds(evs) ==
    LET calls == SelectSeq(evs, IsToolCallEvent)
    IN [i \in 1..Len(calls) |-> calls[i].call.id]

\* the call-ids of the results the goroutines of the round have handed over,
\* in the order Run appends them: those appended, then those in the channel
Delivered ==
    ResultIds(RoundMsgs) \o [i \in 1..Len(toolResults) |-> toolResults[i].id]

IsPrefixOf(a, b) == Len(a) <= Len(b) /\ SubSeq(b, 1, Len(a)) = a

OccursIn(id, ids) == Cardinality({i \in 1..Len(ids) : ids[i] = id})

\* C31: the results of a round are appended in the order the tool goroutines
\* completed (handed them over), whatever that order is and however many
\* goroutines wait for room in the channel; when the round is over the
\* call-ids of its ToolResult messages are those of its ToolCall events, each
\* once.
C31_ResultsInCompletionOrder ==
    /\ [](/\ \A i \in 1..Len(Delivered) : OccursIn(Delivered[i], Delivered) = 1
          /\ {Delivered[i] : i \in 1..Len(Delivered)}
               = {workers[i].id : i \in {j \in 1..Len(workers) : workers[j].st = "done"}}
          /\ Len(toolResults) <= ToolResultsCap)
    /\ [][IsPrefixOf(Delivered, Delivered') /\ Len(Delivered') <= Len(Delivered) + 1]_vars
    /\ [](RoundCompleted
            => /\ Len(ResultIds(RoundMsgs)) = Len(EventCallIds(sent))
               /\ \A i \in 1..Len(EventCallIds(sent)) :
                    /\ OccursIn(EventCallIds(sent)[i], ResultIds(RoundMsgs)) = 1
                    /\ OccursIn(EventCallIds(sent)[i], EventCallIds(sent)) = 1)

\* a round with more calls than the channel holds is over: the result of the
\* last call was appended first, that of the first call last
C31_Witness ==
    /\ pc = "round" /\ round = 1
    /\ Len(workers) = MaxFanOut
    /\ Len(ResultIds(RoundMsgs)) = MaxFanOut
    /\ ResultIds(RoundMsgs)[1] = CallId(0, MaxFanOut)
    /\ ResultIds(RoundMsgs)[MaxFanOut] = CallId(0, 1)

IsContentMsg(m) == m.type = "content"

RECURSIVE DeltaText(_)
\* the deltas of the EvDelta events of evs, one after the other
DeltaText(evs) ==
    IF evs = <<>> THEN <<>>
    ELSE (IF Head(evs).type = "EvDelta" THEN Head(evs).delta ELSE <<>>) \o DeltaText(Tail(evs))

RECURSIVE ContentText(_)
\* the texts of the Content messages of ms, one after the other
ContentText(ms) ==
    IF ms = <<>> THEN <<>>
    ELSE (IF Head(ms).type = "content" THEN Head(ms).text ELSE <<>>) \o ContentText(Tail(ms))

\* C32: when adapter B sends its FinalResponse, the deltas of the ContentDelta
\* events it sent before, one after the other, are the texts of the Content
\* messages of that response, one after the other.
C32_DeltasAreTheText ==
    provider = "anthropic" =>
        \A i \in 1..Len(sent) :
            sent[i].type = "EvResp"
                => DeltaText(SubSeq(sent, 1, i)) = ContentText(sent[i].resp.msgs)

\* the response of a stream with two text blocks arrived after its three
\* deltas
C32_Witness ==
    /\ provider = "anthropic"
    /\ sent # <<>> /\ sent[Len(sent)].type = "EvResp"
    /\ Count(sent[Len(sent)].resp.msgs, IsContentMsg) = 2
    /\ DeltaText(sent) = <<"a", "b", "c">>

\* C33 (as claimed): after a Run that returned nil the last message stored for
\* the session is a Content message of the assistant.
C33_TerminalIsAssistantContent ==
    (pc = "returned" /\ runErr = "nil") =>
        /\ storeMsgs # <<>>
        /\ storeMsgs[Len(storeMsgs)].type = "content"
        /\ storeMsgs[Len(storeMsgs)].role = "assistant"

\* C34 (as claimed): after a Run that returned nil every stored ToolCall
\* message is followed by a stored ToolResult with its call-id, and every
\* stored ToolResult is preceded by a ToolCall with its call-id.
C34_NoUnresolvedToolCall ==
    (pc = "returned" /\ runErr = "nil") =>
        /\ \A i \in 1..Len(storeMsgs) :
                storeMsgs[i].type = "tool_call"
                    => \E j \in (i + 1)..Len(storeMsgs) :
                            /\ storeMsgs[j].type = "tool_result"
                            /\ storeMsgs[j].id = storeMsgs[i].id
        /\ \A j \in 1..Len(storeMsgs) :
                storeMsgs[j].type = "tool_result"
                    => \E i \in 1..(j - 1) :
                            /\ storeMsgs[i].type = "tool_call"
                            /\ storeMsgs[i].id = storeMsgs[j].id

\* C35 (as claimed): a FinalResponse without messages does not abort Run: the
\* process does not die of it.
C35_EmptyResponseHandled ==
    (\E i \in 1..Len(sent) : sent[i].type = "EvResp" /\ sent[i].resp.msgs = <<>>)
        => ~crashed

\* a step that is a call of Messages: it returns as Messages, and nothing of
\* Extend or of a reopening happens in it
MessagesStep ==
    /\ ret'.op = "Messages"
    /\ db' = db /\ tx' = tx /\ committed' = committed
    /\ handle'.opens = handle.opens /\ handle'.extends = handle.extends

\* C36 (as claimed): no call of Messages changes what Usage returns for any
\* session.
C36_MessagesKeepsUsage ==
    [][MessagesStep => \A key \in SessionIDs : StoreUsage(key)' = StoreUsage(key)]_vars

IsReasonDeltaEvent(e) == e.type = "EvDeltaReason"

\* C37 (as claimed): in adapter B each tool_use block produces exactly one
\* ToolCall event and each thinking block exactly one ReasonDelta event,
\* whatever blocks stand before or after it. content_block_start appends one
\* ToolCall message for a tool_use block and one Reasoning message for a
\* thinking block: while Consume runs, the events sent are never more than
\* these messages, and the events sent before a FinalResponse are as many as
\* the messages it carries.
C37_OneEventPerBlock ==
    provider = "anthropic" =>
        /\ cpc \in {"read", "send"} =>
              /\ Count(sent, IsToolCallEvent) <= Count(cresp.msgs, IsToolCallMsg)
              /\ Count(sent, IsReasonDeltaEvent) <= Count(cresp.msgs, IsReasoning)
        /\ \A i \in 1..Len(sent) :
              sent[i].type = "EvResp" =>
                  /\ Count(Prefix(sent, i), IsToolCallEvent)
                        = Count(sent[i].resp.msgs, IsToolCallMsg)
                  /\ Count(Prefix(sent, i), IsReasonDeltaEvent)
                        = Count(sent[i].resp.msgs, IsReasoning)

\* every tool goroutine is over: its result was sent or dropped
WorkersOver == \A i \in 1..Len(workers) : workers[i].st \in {"done", "dropped"}

\* no Consume goroutine runs: none was started, or it has returned
ConsumeOver == cpc \in {"idle", "returned"}

EndsHistory(m, rd) ==
    \/ m.type = "content" /\ m.role = "user"
    \/ m.type = "tool_result"
    \/ IsSteer(m) /\ provider = "openai" /\ rd = agentRoundsMax - 1

\* C39: in every OpenStream call of Run the history ends with a Content(user)
\* message, a ToolResult message or, for provider openai in the final round,
\* the steering message: never with a Reasoning or a ToolCall message. The
\* calls that returned a stream are in opened; a call that failed was made
\* with the working slice Run returned with.
C39_HistoryEndsWell ==
    /\ \A i \in 1..Len(opened) :
          /\ opened[i].msgs # <<>>
          /\ EndsHistory(opened[i].msgs[Len(opened[i].msgs)], opened[i].round)
    /\ (pc = "returned" /\ runErr = "error opening stream") =>
          /\ msgs # <<>>
          /\ EndsHistory(msgs[Len(msgs)], round)

\* provider anthropic reached its final round: the first history ended with
\* the user's input, the last one with the result of a tool
C39_Witness ==
    /\ provider = "anthropic"
    /\ Len(opened) = agentRoundsMax
    /\ opened[1].msgs[Len(opened[1].msgs)].role = "user"
    /\ opened[agentRoundsMax].msgs[Len(opened[agentRoundsMax].msgs)].type = "tool_result"
    /\ \E i \in 1..Len(opened[agentRoundsMax].msgs) :
          opened[agentRoundsMax].msgs[i].type = "reasoning"

\* ------------------------------------------------------------------------
\* Goroutines that call Extend on one SQLiteStore at the same time
\* ------------------------------------------------------------------------

\* how many goroutines call Extend
MaxCallers == 2

\* most messages one call of Extend is given
MaxBatch == 2

Callers == 1..MaxCallers

\* a call of Extend is given no message, or MaxBatch of them
BatchSizes == {0, MaxBatch}

\* nobody holds s.mu
NoCaller == 0

\* the messages caller i hands to Extend
BatchOf(i, n) == [j \in 1..n |-> NewMsgContent("user", <<i, j>>)]

\* every variable but those a call of Extend works on
extendFrame ==
    <<provider, registry, storeVars, runVars, ctxDone, ctxChildDone, streamVars, crashed,
      storeKind, tx, committed, ret, handle, request, agent, cachedMsg, costed, tui>>

\* A new SQLiteStore and the goroutines about to call Extend on it, each with
\* its session, its messages and its usage. order is the history of the
\* commits.
InitExtenders ==
    /\ provider = "openai"
    /\ registry = {}
    /\ storeMsgs = <<>> /\ storeUsage = 0
    /\ InitRun
    /\ ctxDone = FALSE
    /\ ctxChildDone = FALSE
    /\ body = <<>>
    /\ cpc = "idle"
    /\ InitStream
    /\ crashed = FALSE
    /\ InitStores("SQLiteStore")
    /\ OthersUnused({"callers"})
    /\ \E sessionID \in [Callers -> SessionIDs], n \in [Callers -> BatchSizes],
          us \in [Callers -> Usages] :
          callers = [mu |-> NoCaller, order |-> <<>>,
                     c |-> [i \in Callers |->
                               [st |-> "called", sessionID |-> sessionID[i],
                                msgs |-> BatchOf(i, n[i]), usage |-> us[i],
                                inserted |-> <<>>, upsert |-> <<>>, err |-> ""]]]

\* s.mu.Lock() returns at once whoever holds the mutex
LockNotExclusive(mu) == TRUE

\* s.mu.Lock() returns: nobody holds the mutex
Lock(mu) == mu = NoCaller

\* caller i gets past s.mu.Lock()
CallerLocks(i) ==
    /\ callers.c[i].st = "called"
    /\ Lock(callers.mu)
    /\ callers' = [callers EXCEPT !.mu = i, !.c[i].st = "locked"]
    /\ UNCHANGED <<db, ephemeral, extendFrame>>

\* Extend of caller i returns err: the deferred Rollback and Unlock run
CallerReturns(i, err) ==
    /\ callers' = [callers EXCEPT !.mu = NoCaller, !.c[i].st = "returned", !.c[i].err = err]
    /\ db' = Rollback(db, callers.c[i])
    /\ UNCHANGED ephemeral

\* s.db.Begin()
CallerBegins(i) ==
    /\ callers.c[i].st = "locked"
    /\ \/ /\ callers' = [callers EXCEPT !.c[i].st = "begun"]
          /\ UNCHANGED <<db, ephemeral>>
       \/ CallerReturns(i, "failed to begin transaction")
    /\ UNCHANGED extendFrame

\* tx.Prepare
CallerPrepares(i) ==
    /\ callers.c[i].st = "begun"
    /\ \/ /\ callers' = [callers EXCEPT !.c[i].st = "prepared"]
          /\ UNCHANGED <<db, ephemeral>>
       \/ CallerReturns(i, "failed to prepare statement")
    /\ UNCHANGED extendFrame

\* json.Marshal and stmt.Exec of the next message
CallerInserts(i) ==
    /\ callers.c[i].st = "prepared"
    /\ Len(callers.c[i].inserted) < Len(callers.c[i].msgs)
    /\ \/ /\ callers' = [callers EXCEPT !.c[i].inserted =
                            Append(@, [session_id |-> callers.c[i].sessionID,
                                       payload |-> Marshal(callers.c[i].msgs[Len(@) + 1])])]
          /\ UNCHANGED <<db, ephemeral>>
       \/ CallerReturns(i, "failed to insert message")
    /\ UNCHANGED extendFrame

\* the upsert of the usage row
CallerUpserts(i) ==
    /\ callers.c[i].st = "prepared"
    /\ Len(callers.c[i].inserted) = Len(callers.c[i].msgs)
    /\ \/ /\ callers' = [callers EXCEPT
                            !.c[i].st = "upserted",
                            !.c[i].upsert = <<Upsert(db, callers.c[i].sessionID,
                                                     callers.c[i].usage)>>]
          /\ UNCHANGED <<db, ephemeral>>
       \/ CallerReturns(i, "failed to upsert usage")
    /\ UNCHANGED extendFrame

\* tx.Commit()
CallerCommits(i) ==
    /\ callers.c[i].st = "upserted"
    /\ \/ /\ db' = Commit(db, callers.c[i])
          /\ callers' = [callers EXCEPT !.c[i].st = "committed", !.order = Append(@, i)]
          /\ UNCHANGED ephemeral
       \/ CallerReturns(i, "failed to commit transaction")
    /\ UNCHANGED extendFrame

\* s.ephemeral.Extend after the commit, and the return of nil with the
\* deferred Unlock
CallerExtendsCache(i) ==
    /\ callers.c[i].st = "committed"
    /\ ephemeral' = EphemeralStoreExtend(ephemeral, callers.c[i].sessionID,
                                         callers.c[i].msgs, callers.c[i].usage)
    /\ callers' = [callers EXCEPT !.mu = NoCaller, !.c[i].st = "returned", !.c[i].err = "nil"]
    /\ UNCHANGED <<db, extendFrame>>

NextExtenders ==
    \/ \E i \in Callers : CallerLocks(i)
    \/ \E i \in Callers : CallerBegins(i)
    \/ \E i \in Callers : CallerPrepares(i)
    \/ \E i \in Callers : CallerInserts(i)
    \/ \E i \in Callers : CallerUpserts(i)
    \/ \E i \in Callers : CallerCommits(i)
    \/ \E i \in Callers : CallerExtendsCache(i)

SpecExtenders == InitExtenders /\ [][NextExtenders]_vars

\* the callers of seq whose session is key, in the order of seq
OfSessionIn(seq, key) == SelectSeq(seq, LAMBDA i : callers.c[i].sessionID = key)

\* the rows of the calls of seq, call after call
RowsOf(seq) ==
    ConcatTo([k \in 1..Len(seq) |->
                 [j \in 1..Len(callers.c[seq[k]].msgs) |->
                     [session_id |-> callers.c[seq[k]].sessionID,
                      payload |-> Marshal(callers.c[seq[k]].msgs[j])]]], Len(seq))

\* the messages of the calls of seq, call after call
MsgsOf(seq) ==
    ConcatTo([k \in 1..Len(seq) |-> callers.c[seq[k]].msgs], Len(seq))

\* the usages of the calls of seq
UsagesOf(seq) == [k \in 1..Len(seq) |-> callers.c[seq[k]].usage]

RECURSIVE SumTotals(_)
SumTotals(us) == IF us = <<>> THEN 0 ELSE Head(us).Total + SumTotals(Tail(us))

\* the calls that have returned nil, in the order of their commits
ReturnedNil == SelectSeq(callers.order, LAMBDA i : callers.c[i].st = "returned")

\* C40: concurrent calls of Extend on one SQLiteStore are serialised. The
\* table messages holds the rows of the committed calls call after call, in
\* the order of the commits, each call's rows in the order of its messages;
\* the usage row of every session holds the sums of the usages of its
\* committed calls; the cache holds, for every session, the messages and the
\* sums of the usages of its calls that have returned nil.
C40_ExtendSerialised ==
    /\ db.messages = RowsOf(callers.order)
    /\ \A key \in SessionIDs :
          /\ Counters(loadUsage(key)) = SumCounters(UsagesOf(OfSessionIn(callers.order, key)))
          /\ EphemeralStoreMessages(ephemeral, key) = MsgsOf(OfSessionIn(ReturnedNil, key))
          /\ Counters(EphemeralStoreUsage(ephemeral, key))
                = SumCounters(UsagesOf(OfSessionIn(ReturnedNil, key)))
          /\ EphemeralStoreUsage(ephemeral, key).Total
                = SumTotals(UsagesOf(OfSessionIn(ReturnedNil, key)))

\* two calls on one session, each with two messages, have both returned nil
C40_Witness ==
    /\ \A i \in Callers : callers.c[i].st = "returned" /\ callers.c[i].err = "nil"
    /\ \A i \in Callers : callers.c[i].sessionID = "s1" /\ Len(callers.c[i].msgs) = MaxBatch
    /\ Len(db.messages) = MaxCallers * MaxBatch

====
